---- MODULE Spec2Model ----
(***************************************************************************)
(* A model of the NovaAi relay and tool-call code:                         *)
(*   - parse_tool_action and the TOOL_ACTION dispatcher                    *)
(*     (src/emergency_agent/app.py),                                       *)
(*   - SimpleMessage, RelayBridge and RelayManager (src/relay_server.py),  *)
(*   - SimpleMessage and BridgeClient (src/backups/ai_codebox_app.py).     *)
(* Text is a sequence of one-character tokens; the literal TOOL_ACTION is  *)
(* one token.                                                              *)
(***************************************************************************)
EXTENDS Integers, Sequences, FiniteSets, TLC

VARIABLES
  line,         \* parse_tool_action: the argument
  call,         \* the tool name and raw argument texts the line was written from, if it was
  parseResult,  \* parse_tool_action: the value returned, [done |-> FALSE] before the call
  response,     \* dispatcher: gemini_output, a sequence of lines
  execMode,     \* dispatcher: TOOL_EXECUTION_MODE
  toolRaises,   \* dispatcher: whether the tool functions raise in this run
  chatRaises,   \* dispatcher: whether chat.send_message raises in this run
  reply,        \* dispatcher: the text of the LLM's reply to a TOOL_RESULT
  invoked,      \* dispatcher: the tool functions called, in order, with their arguments
  chatSent,     \* dispatcher: the strings passed to chat.send_message, in order, and whether the call raised
  results,      \* dispatcher: the values execute_with_validation returned, in order
  emitted,      \* dispatcher: emitted_messages
  dispatched,   \* dispatcher: process_ai_response_with_complete_feedback has returned
  now,          \* the clock datetime.now() reads
  m0,           \* SimpleMessage: a message as its constructor built it
  jsonLine,     \* SimpleMessage: m0.to_json()
  mgrMsg,       \* SimpleMessage.from_json(jsonLine) of src/relay_server.py
  guiMsg,       \* SimpleMessage.from_json(jsonLine) of src/backups/ai_codebox_app.py
  bridge,       \* RelayBridge: running, connected, client_socket, server_socket
  active_relays,\* RelayManager.active_relays: agent id -> process
  procs,        \* the agent processes spawned: state and the number of terminate() calls
  timers,       \* RelayManager: the pending root.after(5000, broadcast_status) timers
  pending,      \* the main loop inside broadcast_status: the status_msg built and not yet sent, else None
  mstate,       \* RelayManager: constructed, mainloop, stopped (root destroyed)
  scriptExists, \* whether cdp_agent.py lies beside relay_server.py
  acceptPc,     \* the thread of _accept_connections: none, accepting, done
  listeners,    \* the threads of _listen_client, one per accepted connection: pc, sock, buffer
  srvClosed,    \* per connection: the Bridge has closed its socket
  cliClosed,    \* per connection: the client has closed its socket
  toBridge,     \* per connection: what the client wrote and the Bridge has not read yet
  nConns,       \* the connections accepted so far
  nSent,        \* the messages clients have written so far
  nFired,       \* the timers that fired and found the Bridge connected so far
  written,      \* per connection: the lines the client wrote, in order
  delivered,    \* per connection: the lines given to the callbacks as message events, in order
  lastSend,     \* the last call of send_to_gui: what it found, did and returned
  launchLog,    \* the calls of _launch_agent: what each found and did
  aliveAtStop,  \* the processes that had not exited when stop() ran
  startLog,     \* the call of start_server: whether the bind succeeded, what it left and what it gave the ready callback
  offGuiThread, \* the operations on the registry that ran on another thread than the GUI's, with that thread
  shutdown,     \* what made stop() run, and the registered processes still running un-terminated when it closed the Bridge
  client,       \* BridgeClient: connected, running, socket, _root_ref, callbacks
  sockets,      \* the sockets the client made: not made, connected, unconnected, closed
  peerClosed,   \* per socket of the client: the Bridge has closed its end
  readers,      \* the threads of _listen_for_messages, one per connection made: pc, sock, buffer
  toClient,     \* per socket: what the Bridge wrote and the client has not read yet
  wire,         \* per socket: what the client has written to it
  idle,         \* the calls given to root.after_idle and not yet run
  nCalls,       \* the calls of send_message so far
  nLines,       \* the lines the Bridge has written to the client so far
  whileDisconnected, \* the messages passed to send_message when connected was false
  lastCall,     \* the last call of send_message: what it found and returned
  lastConnect,  \* the last call of connect: what it found, made and returned
  offlineRun,   \* per callback: the Offline status messages the main loop has given it
  sent,         \* framing: the bytes a client has written on its connection
  unread,       \* framing: the bytes recv has not returned yet
  frameBuffer,  \* framing: buffer of _listen_client
  events,       \* framing: the lines given to the callbacks as message events, in order
  framePc       \* framing: where _listen_client is: none, recv, done

parseVars == <<line, call, parseResult>>
dispatchVars == <<response, execMode, toolRaises, chatRaises, reply, invoked, chatSent, results, emitted, dispatched>>
messageVars == <<now, m0, jsonLine, mgrMsg, guiMsg>>

relayVars == <<bridge, active_relays, procs, timers, pending, mstate, scriptExists, startLog, acceptPc, listeners, srvClosed, cliClosed, toBridge, nConns, nSent, nFired, written, delivered, lastSend, launchLog, aliveAtStop, shutdown, offGuiThread>>

clientVars == <<client, sockets, peerClosed, readers, toClient, wire, idle, nCalls, nLines, whileDisconnected, lastCall, lastConnect, offlineRun>>

frameVars == <<sent, unread, frameBuffer, events, framePc>>

vars == <<parseVars, dispatchVars, messageVars, relayVars, clientVars, frameVars>>

(***************************************************************************)
(* Characters                                                              *)
(***************************************************************************)
QUOTE == "\""
BSL == "\\"
NL == "<NL>"
TAB == "<TAB>"
SPACE == " "
TOOL_ACTION == "TOOL_ACTION"

\* bounds of the inputs
MaxLineLen == 4
MaxArgLen == 4
MaxLines == 2
MaxClock == 2
MaxConns == 2
MaxMsgs == 2
MaxEvents == 4
MaxCallbacks == 2
MaxStream == 3

RECURSIVE SeqsUpTo(_, _)
SeqsUpTo(S, n) == IF n = 0 THEN {<<>>} ELSE LET R == SeqsUpTo(S, n - 1) IN R \cup {Append(s, c) : s \in {r \in R : Len(r) = n - 1}, c \in S}

RECURSIVE Concat(_)
Concat(ss) == IF ss = <<>> THEN <<>> ELSE Head(ss) \o Concat(Tail(ss))

(***************************************************************************)
(* parse_tool_action (src/emergency_agent/app.py:622-646)                  *)
(***************************************************************************)
\* str.strip() on a line that holds no other white space than blanks
RECURSIVE LStrip(_)
LStrip(s) == IF s # <<>> /\ Head(s) = SPACE THEN LStrip(Tail(s)) ELSE s

RECURSIVE RStrip(_)
RStrip(s) == IF s # <<>> /\ s[Len(s)] = SPACE THEN RStrip(SubSeq(s, 1, Len(s) - 1)) ELSE s

Strip(s) == RStrip(LStrip(s))

\* the least j >= i with s[j] = ")", 0 when there is none: the lazy (.*?)\) of the pattern
RECURSIVE FirstCloseParen(_, _)
FirstCloseParen(s, i) == IF i > Len(s) THEN 0 ELSE IF s[i] = ")" THEN i ELSE FirstCloseParen(s, i + 1)

\* TOOL_ACTION_PATTERN.search(s) tried from position i on: [found, group]
RECURSIVE PatternSearchFrom(_, _)
PatternSearchFrom(s, i) ==
  IF i + 1 > Len(s) THEN [found |-> FALSE, group |-> <<>>]
  ELSE IF s[i] = TOOL_ACTION /\ s[i + 1] = "(" /\ FirstCloseParen(s, i + 2) # 0
       THEN [found |-> TRUE, group |-> SubSeq(s, i + 2, FirstCloseParen(s, i + 2) - 1)]
       ELSE PatternSearchFrom(s, i + 1)

PatternSearch(s) == PatternSearchFrom(s, 1)

\* "((?:[^"\\]|\\.)*)" with the opening quote consumed and the body starting at i:
\* the index of the closing quote, 0 when the pattern does not match here
RECURSIVE QuotedEnd(_, _)
QuotedEnd(s, i) ==
  IF i > Len(s) THEN 0
  ELSE IF s[i] = QUOTE THEN i
  ELSE IF s[i] = BSL THEN (IF i + 1 > Len(s) THEN 0 ELSE QuotedEnd(s, i + 2))
  ELSE QuotedEnd(s, i + 1)

\* re.findall(r'"((?:[^"\\]|\\.)*)"', s), scanning from position i
RECURSIVE FindAllQuoted(_, _)
FindAllQuoted(s, i) ==
  IF i > Len(s) THEN <<>>
  ELSE IF s[i] = QUOTE /\ QuotedEnd(s, i + 1) # 0
       THEN <<SubSeq(s, i + 1, QuotedEnd(s, i + 1) - 1)>> \o FindAllQuoted(s, QuotedEnd(s, i + 1) + 1)
       ELSE FindAllQuoted(s, i + 1)

\* str.replace(a + b, new): every non-overlapping occurrence, left to right
RECURSIVE Replace2(_, _, _, _)
Replace2(s, a, b, new) ==
  IF Len(s) < 2 THEN s
  ELSE IF s[1] = a /\ s[2] = b THEN <<new>> \o Replace2(SubSeq(s, 3, Len(s)), a, b, new)
  ELSE <<s[1]>> \o Replace2(Tail(s), a, b, new)

\* arg.replace('\\n', '\n').replace('\\t', '\t').replace('\\"', '"').replace('\\\\', '\\')
DecodeArg(arg) == Replace2(Replace2(Replace2(Replace2(arg, BSL, "n", NL), BSL, "t", TAB), BSL, QUOTE, QUOTE), BSL, BSL, BSL)

NoneNone == [found |-> FALSE, name |-> <<>>, args |-> <<>>]

\* a mutant of parse_tool_action: the quoted strings are taken from the whole line, whether or not the pattern matches
parse_tool_action_unanchored(l) ==
  LET args == FindAllQuoted(Strip(l), 1)
  IN IF args = <<>> THEN NoneNone
     ELSE [found |-> TRUE, name |-> args[1], args |-> [k \in 1..(Len(args) - 1) |-> DecodeArg(args[k + 1])]]

\* parse_tool_action(line): (None, None) is NoneNone
parse_tool_action(l) ==
  LET match == PatternSearch(Strip(l))
      args == FindAllQuoted(match.group, 1)
  IN IF ~match.found THEN NoneNone
     ELSE IF args = <<>> THEN NoneNone
     ELSE [found |-> TRUE, name |-> args[1], args |-> [k \in 1..(Len(args) - 1) |-> DecodeArg(args[k + 1])]]

(***************************************************************************)
(* The lines parse_tool_action is applied to                               *)
(***************************************************************************)
LineChars == {TOOL_ACTION, "(", ")", QUOTE, BSL, ",", "x"}
ArgChars == {BSL, QUOTE, "t", "n", "C", ")"}
ParsedNames == {<<"LIST_DIR">>, <<"NOPE">>}

ArbitraryLines == SeqsUpTo(LineChars, MaxLineLen)
RawArgs == SeqsUpTo(ArgChars, MaxArgLen)
ArgLists == {<<>>} \cup {<<a>> : a \in RawArgs} \cup {<<(<<"C">>), a>> : a \in RawArgs}

\* the text TOOL_ACTION("name", "arg1", ...) as the LLM writes it
Render(n, as) == <<TOOL_ACTION, "(", QUOTE>> \o n \o <<QUOTE>> \o Concat([k \in 1..Len(as) |-> <<",", SPACE, QUOTE>> \o as[k] \o <<QUOTE>>]) \o <<")">>

NoCall == [structured |-> FALSE, name |-> <<>>, args |-> <<>>]
NotCalled == [done |-> FALSE, value |-> NoneNone]

ParseInit ==
  /\ parseResult = NotCalled
  /\ \/ line \in ArbitraryLines /\ call = NoCall
     \/ \E n \in ParsedNames, as \in ArgLists : line = Render(n, as) /\ call = [structured |-> TRUE, name |-> n, args |-> as]

ParseIdle == line = <<>> /\ call = NoCall /\ parseResult = NotCalled

\* one call of parse_tool_action(line)
ParseToolAction ==
  /\ ~parseResult.done
  /\ parseResult' = [done |-> TRUE, value |-> parse_tool_action(line)]
  /\ UNCHANGED <<line, call>>
  /\ UNCHANGED <<dispatchVars, messageVars, relayVars, clientVars, frameVars>>

(***************************************************************************)
(* The dispatcher (src/emergency_agent/app.py:506-713)                     *)
(***************************************************************************)
TOOL_REGISTRY == {<<"READ_FILE">>, <<"LIST_DIR">>, <<"WRITE_CODE">>, <<"LOG_ACTIVITY">>, <<"EXECUTE_COMMAND">>, <<"CREATE_DIRECTORY">>, <<"ANALYZE_PROJECT">>, <<"BACKUP_PROJECT">>}

\* the least and the greatest number of positional arguments each tool function takes
ToolArity(n) == CASE n = <<"LOG_ACTIVITY">> -> <<3, 3>> [] n = <<"WRITE_CODE">> -> <<2, 2>> [] n = <<"EXECUTE_COMMAND">> -> <<1, 2>> [] n = <<"ANALYZE_PROJECT">> -> <<0, 0>> [] n = <<"BACKUP_PROJECT">> -> <<0, 1>> [] OTHER -> <<1, 1>>

\* tool_function(*args) raises: a TypeError for a wrong number of arguments, or an exception of its body
ToolFunctionRaises(n, args, raises) == raises \/ Len(args) < ToolArity(n)[1] \/ Len(args) > ToolArity(n)[2]

SafeTools == {<<"READ_FILE">>, <<"LIST_DIR">>, <<"LOG_ACTIVITY">>, <<"ANALYZE_PROJECT">>}

\* a mutant of execute_with_validation: the execution mode is not looked at
execute_in_any_mode(mode, n, args, raises) ==
  IF ToolFunctionRaises(n, args, raises) THEN [tool_name |-> n, arguments |-> args, success |-> FALSE, output |-> <<"Chyba", n, args>>, error_message |-> "str(e)", called |-> TRUE, raised |-> TRUE]
  ELSE [tool_name |-> n, arguments |-> args, success |-> TRUE, output |-> <<"returned", n, args>>, error_message |-> "None", called |-> TRUE, raised |-> FALSE]

\* a mutant of execute_with_validation: the exception of the tool is dropped, the result is left as it was built
execute_silently(mode, n, args, raises) ==
  IF mode = "SIMULATION" THEN [tool_name |-> n, arguments |-> args, success |-> TRUE, output |-> <<"[SIMULATION]", n, args>>, error_message |-> "None", called |-> FALSE, raised |-> FALSE]
  ELSE IF mode = "SAFE" /\ n \notin SafeTools THEN [tool_name |-> n, arguments |-> args, success |-> FALSE, output |-> <<"[SAFE MODE]", n, args>>, error_message |-> "Tool blocked by safe mode", called |-> FALSE, raised |-> FALSE]
  ELSE IF ToolFunctionRaises(n, args, raises) THEN [tool_name |-> n, arguments |-> args, success |-> FALSE, output |-> <<>>, error_message |-> "None", called |-> TRUE, raised |-> TRUE]
  ELSE [tool_name |-> n, arguments |-> args, success |-> TRUE, output |-> <<"returned", n, args>>, error_message |-> "None", called |-> TRUE, raised |-> FALSE]

\* EnhancedToolExecutor.execute_with_validation; called tells whether tool_function was called, raised whether
\* it raised
execute_with_validation(mode, n, args, raises) ==
  IF mode = "SIMULATION" THEN [tool_name |-> n, arguments |-> args, success |-> TRUE, output |-> <<"[SIMULATION]", n, args>>, error_message |-> "None", called |-> FALSE, raised |-> FALSE]
  ELSE IF mode = "SAFE" /\ n \notin SafeTools THEN [tool_name |-> n, arguments |-> args, success |-> FALSE, output |-> <<"[SAFE MODE]", n, args>>, error_message |-> "Tool blocked by safe mode", called |-> FALSE, raised |-> FALSE]
  ELSE IF ToolFunctionRaises(n, args, raises) THEN [tool_name |-> n, arguments |-> args, success |-> FALSE, output |-> <<"Chyba", n, args>>, error_message |-> "str(e)", called |-> TRUE, raised |-> TRUE]
  ELSE [tool_name |-> n, arguments |-> args, success |-> TRUE, output |-> <<"returned", n, args>>, error_message |-> "None", called |-> TRUE, raised |-> FALSE]

\* gemini_output.split('\n')
RECURSIVE SplitNL(_, _)
SplitNL(text, cur) ==
  IF text = <<>> THEN <<cur>>
  ELSE IF Head(text) = NL THEN <<cur>> \o SplitNL(Tail(text), <<>>)
  ELSE SplitNL(Tail(text), Append(cur, Head(text)))

RECURSIVE JoinNL(_)
JoinNL(ls) == IF Len(ls) = 0 THEN <<>> ELSE IF Len(ls) = 1 THEN ls[1] ELSE ls[1] \o <<NL>> \o JoinNL(Tail(ls))

NoOutput == [invoked |-> <<>>, chatSent |-> <<>>, results |-> <<>>, emitted |-> <<>>]

\* a mutant of the body of the loop: the tool function is called a second time
ProcessLine_twice(st, l, mode, raises, chatFails, rep) ==
  LET p == parse_tool_action(l)
      r == execute_with_validation(mode, p.name, p.args, raises)
      c == [tool |-> p.name, args |-> p.args]
  IN IF p.found /\ p.name # <<>> /\ p.name \in TOOL_REGISTRY
     THEN [invoked |-> IF r.called THEN st.invoked \o <<c, c>> ELSE st.invoked,
           chatSent |-> Append(st.chatSent, [type |-> "TOOL_RESULT", tool |-> p.name, output |-> r.output, raised |-> chatFails]),
           results |-> Append(st.results, r),
           emitted |-> st.emitted
                       \o (IF ~chatFails /\ Strip(rep) # <<>> THEN <<[type |-> "ai_followup", tool |-> p.name, output |-> rep, success |-> TRUE]>> ELSE <<>>)
                       \o <<[type |-> "tool_output", tool |-> p.name, output |-> r.output, success |-> r.success],
                            [type |-> "tool_result", tool |-> p.name, output |-> r.output, success |-> r.success]>>]
     ELSE st

\* the body of "for line in lines" for one line, from the state st of the lists
ProcessLine(st, l, mode, raises, chatFails, rep) ==
  LET p == parse_tool_action(l)
      r == execute_with_validation(mode, p.name, p.args, raises)
  IN IF p.found /\ p.name # <<>> /\ p.name \in TOOL_REGISTRY
     THEN [invoked |-> IF r.called THEN Append(st.invoked, [tool |-> p.name, args |-> p.args]) ELSE st.invoked,
           chatSent |-> Append(st.chatSent, [type |-> "TOOL_RESULT", tool |-> p.name, output |-> r.output, raised |-> chatFails]),
           results |-> Append(st.results, r),
           emitted |-> st.emitted
                       \o (IF ~chatFails /\ Strip(rep) # <<>> THEN <<[type |-> "ai_followup", tool |-> p.name, output |-> rep, success |-> TRUE]>> ELSE <<>>)
                       \o <<[type |-> "tool_output", tool |-> p.name, output |-> r.output, success |-> r.success],
                            [type |-> "tool_result", tool |-> p.name, output |-> r.output, success |-> r.success]>>]
     ELSE st

RECURSIVE ProcessLines(_, _, _, _, _, _)
ProcessLines(st, ls, mode, raises, chatFails, rep) ==
  IF ls = <<>> THEN st ELSE ProcessLines(ProcessLine(st, Head(ls), mode, raises, chatFails, rep), Tail(ls), mode, raises, chatFails, rep)

\* process_ai_response_with_complete_feedback(session_id, gemini_output)
process_ai_response(text, mode, raises, chatFails, rep) ==
  ProcessLines([NoOutput EXCEPT !.emitted = <<[type |-> "text", tool |-> <<>>, output |-> text, success |-> TRUE]>>], SplitNL(text, <<>>), mode, raises, chatFails, rep)

DispatchLines == {<<"x">>, Render(<<"LIST_DIR">>, <<(<<"C">>)>>), Render(<<"LIST_DIR">>, <<>>), Render(<<"NOPE">>, <<(<<"C">>)>>), Render(<<"WRITE_CODE">>, <<(<<"C">>), (<<"C">>)>>), Render(<<"ANALYZE_PROJECT">>, <<>>)}
Responses == {JoinNL(ls) : ls \in (SeqsUpTo(DispatchLines, MaxLines) \ {<<>>})}
Replies == {<<>>, Render(<<"READ_FILE">>, <<(<<"C">>)>>)}

DispatchIdle ==
  /\ response = <<>> /\ execMode = "REAL" /\ toolRaises = FALSE /\ chatRaises = FALSE /\ reply = <<>>
  /\ invoked = <<>> /\ chatSent = <<>> /\ results = <<>> /\ emitted = <<>> /\ dispatched = FALSE

DispatchInit ==
  /\ response \in Responses
  /\ execMode \in {"REAL", "SIMULATION", "SAFE"}
  /\ toolRaises \in BOOLEAN
  /\ chatRaises \in BOOLEAN
  /\ reply \in Replies
  /\ invoked = <<>> /\ chatSent = <<>> /\ results = <<>> /\ emitted = <<>> /\ dispatched = FALSE

\* one call of the dispatcher on the LLM's response
ProcessAiResponse ==
  /\ ~dispatched
  /\ LET out == process_ai_response(response, execMode, toolRaises, chatRaises, reply)
     IN invoked' = out.invoked /\ chatSent' = out.chatSent /\ results' = out.results /\ emitted' = out.emitted
  /\ dispatched' = TRUE
  /\ UNCHANGED <<response, execMode, toolRaises, chatRaises, reply>>
  /\ UNCHANGED <<parseVars, messageVars, relayVars, clientVars, frameVars>>

(***************************************************************************)
(* Python values and JSON texts                                            *)
(***************************************************************************)
PyNone == [t |-> "None", v |-> ""]
PyStr(s) == [t |-> "str", v |-> s]
PyTuple(xs) == [t |-> "tuple", v |-> xs]
PyList(xs) == [t |-> "list", v |-> xs]
PyDict(f) == [t |-> "dict", v |-> f]

\* what a line on the socket is made of: JSON texts, other text, and the newline
JNull == [jt |-> "null", jv |-> ""]
JStr(s) == [jt |-> "string", jv |-> s]
JArr(xs) == [jt |-> "array", jv |-> xs]
JObj(f) == [jt |-> "object", jv |-> f]
Junk == [jt |-> "junk", jv |-> ""]
Newline == [jt |-> "newline", jv |-> ""]

\* json.dumps: a tuple and a list both give an array
RECURSIVE json_dumps(_)
json_dumps(x) ==
  IF x.t = "None" THEN JNull
  ELSE IF x.t = "str" THEN JStr(x.v)
  ELSE IF x.t \in {"tuple", "list"} THEN JArr([k \in DOMAIN x.v |-> json_dumps(x.v[k])])
  ELSE JObj([k \in DOMAIN x.v |-> json_dumps(x.v[k])])

\* json.loads of one JSON text: an array gives a list
RECURSIVE json_loads(_)
json_loads(y) ==
  IF y.jt = "null" THEN PyNone
  ELSE IF y.jt = "string" THEN PyStr(y.jv)
  ELSE IF y.jt = "array" THEN PyList([k \in DOMAIN y.jv |-> json_loads(y.jv[k])])
  ELSE PyDict([k \in DOMAIN y.jv |-> json_loads(y.jv[k])])

\* dict.get(k, default)
Get(d, k, default) == IF k \in DOMAIN d THEN d[k] ELSE default

\* datetime.now().isoformat()
IsoFormat(clock) == PyStr(<<"t0", "t1", "t2", "t3", "t4">>[clock + 1])

(***************************************************************************)
(* SimpleMessage (src/relay_server.py:8-14,                                *)
(*                src/backups/ai_codebox_app.py:35-47)                     *)
(***************************************************************************)
\* SimpleMessage.__init__, the same in both files; metadata is a dict or None
SimpleMessageInit(agent_id, content, direction, msg_type, msg_id, metadata, clock) ==
  [agent_id |-> agent_id, content |-> content, direction |-> direction, timestamp |-> IsoFormat(clock), msg_id |-> msg_id,
   metadata |-> LET md == IF metadata.t = "dict" /\ DOMAIN metadata.v # {} THEN metadata.v ELSE <<>>
                IN PyDict([k \in DOMAIN md \cup {"type"} |-> IF k = "type" THEN msg_type ELSE md[k]])]

\* SimpleMessage.to_json: json.dumps(self.__dict__)
to_json(m) == json_dumps(PyDict(m))

\* json.loads(line) followed by the reads of data.get: succeeds on one JSON object only
IsJsonObject(l) == Len(l) = 1 /\ l[1].jt = "object"

\* SimpleMessage.from_dict of src/relay_server.py
RelayFromDict(data, clock) ==
  SimpleMessageInit(Get(data, "agent_id", PyNone), Get(data, "content", PyNone), Get(data, "direction", PyNone),
                    Get(Get(data, "metadata", PyDict(<<>>)).v, "type", PyStr("chat")), Get(data, "msg_id", PyNone), Get(data, "metadata", PyNone), clock)

\* SimpleMessage.from_json of src/relay_server.py, for a line that is a JSON object
RelayFromJson(l, clock) == RelayFromDict(json_loads(l[1]).v, clock)

\* SimpleMessage.from_json of src/backups/ai_codebox_app.py: the constructor, then __dict__.update(data)
GuiFromJson(l, clock) ==
  LET data == json_loads(l[1]).v
      instance == SimpleMessageInit(Get(data, "agent_id", PyNone), Get(data, "content", PyNone), Get(data, "direction", PyNone), PyStr("chat"), PyNone, PyNone, clock)
  IN [k \in DOMAIN instance \cup DOMAIN data |-> IF k \in DOMAIN data THEN data[k] ELSE instance[k]]

\* the values the messages of the repository hold
LaunchContent == PyDict([agent_id |-> PyStr("a1"), url |-> PyStr("u")])
StatusContent == PyDict([manager |-> PyTuple(<<PyStr("Online"), PyStr("green")>>)])
Contents == {PyStr("hello"), PyStr("shutdown"), LaunchContent, StatusContent}
MsgTypes == {"chat", "status_update", "system_command", "launch_agent"}
Metadatas == {PyNone, PyDict([source |-> PyStr("gui")])}

MessageIdle == now = 0 /\ m0 = PyNone /\ jsonLine = <<>> /\ mgrMsg = PyNone /\ guiMsg = PyNone

\* time passes
Tick ==
  /\ now < MaxClock
  /\ now' = now + 1
  /\ UNCHANGED <<m0, jsonLine, mgrMsg, guiMsg>>
  /\ UNCHANGED <<parseVars, dispatchVars, relayVars, clientVars, frameVars>>

\* SimpleMessage(agent_id, content, direction, msg_type, msg_id, metadata)
Construct ==
  /\ m0 = PyNone
  /\ \E a \in {PyStr("System"), PyStr("a1")}, c \in Contents, d \in {PyStr("incoming"), PyStr("outgoing")}, ty \in MsgTypes, id \in {PyNone, PyStr("id1")}, md \in Metadatas :
       m0' = SimpleMessageInit(a, c, d, PyStr(ty), id, md, now)
  /\ UNCHANGED <<now, jsonLine, mgrMsg, guiMsg>>
  /\ UNCHANGED <<parseVars, dispatchVars, relayVars, clientVars, frameVars>>

\* m0.to_json()
ToJson ==
  /\ m0 # PyNone /\ jsonLine = <<>>
  /\ jsonLine' = <<to_json(m0)>>
  /\ UNCHANGED <<now, m0, mgrMsg, guiMsg>>
  /\ UNCHANGED <<parseVars, dispatchVars, relayVars, clientVars, frameVars>>

\* SimpleMessage.from_json(jsonLine) in the Manager
FromJsonManager ==
  /\ jsonLine # <<>> /\ mgrMsg = PyNone /\ IsJsonObject(jsonLine)
  /\ mgrMsg' = RelayFromJson(jsonLine, now)
  /\ UNCHANGED <<now, m0, jsonLine, guiMsg>>
  /\ UNCHANGED <<parseVars, dispatchVars, relayVars, clientVars, frameVars>>

\* SimpleMessage.from_json(jsonLine) in the GUI
FromJsonGui ==
  /\ jsonLine # <<>> /\ guiMsg = PyNone /\ IsJsonObject(jsonLine)
  /\ guiMsg' = GuiFromJson(jsonLine, now)
  /\ UNCHANGED <<now, m0, jsonLine, mgrMsg>>
  /\ UNCHANGED <<parseVars, dispatchVars, relayVars, clientVars, frameVars>>

(***************************************************************************)
(* RelayBridge and RelayManager (src/relay_server.py:16-128)               *)
(* The operators below take and give the memory M of the Manager process:  *)
(* the fields of the Bridge and of the Manager, the sockets and the        *)
(* processes.  e is what the environment does during the call.             *)
(***************************************************************************)
Conns == 1..MaxConns
Procs == 1..MaxMsgs

Range(f) == {f[k] : k \in DOMAIN f}

NoSend == [called |-> FALSE, connectedBefore |-> FALSE, failed |-> FALSE, ret |-> FALSE, wrote |-> <<>>, sock |-> 0, newest |-> 0, connectedAfter |-> FALSE, raised |-> FALSE, known |-> {}]

\* a mutant of send_to_gui: the connected flag is not tested before the write
send_to_gui_unguarded(M, message, e) ==
  LET cs == M.bridge.client_socket
      fails == cs = 0 \/ M.srvClosed[cs] \/ (M.cliClosed[cs] /\ ~e.sendOk)
      seen == [NoSend EXCEPT !.called = TRUE, !.connectedBefore = M.bridge.connected, !.sock = cs, !.newest = M.nConns, !.failed = fails, !.known = DOMAIN M.active_relays]
  IN IF fails THEN [M EXCEPT !.bridge.connected = FALSE, !.lastSend = seen]
     ELSE [M EXCEPT !.lastSend = [seen EXCEPT !.ret = TRUE, !.wrote = <<to_json(message), Newline>>, !.connectedAfter = M.bridge.connected]]

\* RelayBridge.send_to_gui; sendall raises on a socket the Bridge closed, and may raise on one the client closed
send_to_gui(M, message, e) ==
  LET cs == M.bridge.client_socket
      fails == M.srvClosed[cs] \/ (M.cliClosed[cs] /\ ~e.sendOk)
      seen == [NoSend EXCEPT !.called = TRUE, !.connectedBefore = M.bridge.connected, !.sock = cs, !.newest = M.nConns, !.known = DOMAIN M.active_relays]
  IN IF ~M.bridge.connected THEN [M EXCEPT !.lastSend = seen]
     ELSE IF fails THEN [M EXCEPT !.bridge.connected = FALSE, !.lastSend = [seen EXCEPT !.failed = TRUE]]
     ELSE [M EXCEPT !.lastSend = [seen EXCEPT !.ret = TRUE, !.wrote = <<to_json(message), Newline>>, !.connectedAfter = TRUE]]

\* process.poll() is None
Polls(M, p) == M.procs[p].state = "running"

\* the statuses dict of broadcast_status
Statuses(M) ==
  LET online == PyTuple(<<PyStr("Online"), PyStr("green")>>)
      up == {a \in DOMAIN M.active_relays : Polls(M, M.active_relays[a])}
  IN PyDict([k \in {"manager"} \cup up |-> online])

\* root.after(5000, self.broadcast_status): one more timer is pending; the timers are counted as none, one, several
After(n) == IF n = "none" THEN "one" ELSE "several"

\* a timer fires: one timer less is pending; several stay several
Fired(n) == IF n = "one" THEN "none" ELSE "several"

\* the status_msg of broadcast_status
StatusMessage(M) == PyDict(SimpleMessageInit(PyStr("System"), Statuses(M), PyStr("incoming"), PyStr("status_update"), PyNone, PyNone, M.now))

\* RelayManager.broadcast_status, called by a handler
broadcast_status(M, e) ==
  LET M1 == IF M.bridge.connected THEN send_to_gui(M, StatusMessage(M).v, e) ELSE M
  IN [M1 EXCEPT !.timers = After(@)]

\* the key of active_relays an agent_id read from a message is
AgentKey(x) == IF x.t = "str" THEN x.v ELSE "None"

\* the next process subprocess.Popen starts
NextProc(M) == Cardinality({p \in Procs : M.procs[p].state # "unborn"}) + 1

\* a mutant of _launch_agent: the test whether the agent already runs is missing
launch_agent_unchecked(M, agent_id, e) ==
  LET a == AgentKey(agent_id)
      p == NextProc(M)
      alive == a \in DOMAIN M.active_relays /\ Polls(M, M.active_relays[a])
      entry == [agent |-> a, known |-> a \in DOMAIN M.active_relays, alive |-> alive, script |-> M.scriptExists, spawnOk |-> e.spawnOk, before |-> M.active_relays, after |-> M.active_relays, spawned |-> {}]
      after == [k \in DOMAIN M.active_relays \cup {a} |-> IF k = a THEN p ELSE M.active_relays[k]]
  IN IF ~M.scriptExists THEN [M EXCEPT !.launchLog = Append(@, entry)]
     ELSE IF ~e.spawnOk THEN broadcast_status([M EXCEPT !.launchLog = Append(@, entry)], e)
     ELSE broadcast_status([M EXCEPT !.procs[p].state = "running", !.active_relays = after, !.launchLog = Append(@, [entry EXCEPT !.after = after, !.spawned = {p}])], e)

\* RelayManager._launch_agent
launch_agent(M, agent_id, e) ==
  LET a == AgentKey(agent_id)
      p == NextProc(M)
      alive == a \in DOMAIN M.active_relays /\ Polls(M, M.active_relays[a])
      entry == [agent |-> a, known |-> a \in DOMAIN M.active_relays, alive |-> alive, script |-> M.scriptExists, spawnOk |-> e.spawnOk, before |-> M.active_relays, after |-> M.active_relays, spawned |-> {}]
      after == [k \in DOMAIN M.active_relays \cup {a} |-> IF k = a THEN p ELSE M.active_relays[k]]
  IN IF alive THEN [M EXCEPT !.launchLog = Append(@, entry)]
     ELSE IF ~M.scriptExists THEN [M EXCEPT !.launchLog = Append(@, entry)]
     ELSE IF ~e.spawnOk THEN broadcast_status([M EXCEPT !.launchLog = Append(@, entry)], e)
     ELSE broadcast_status([M EXCEPT !.procs[p].state = "running", !.active_relays = after, !.launchLog = Append(@, [entry EXCEPT !.after = after, !.spawned = {p}])], e)

\* RelayBridge.stop
bridge_stop(M) ==
  LET cs == M.bridge.client_socket
  IN [M EXCEPT !.bridge.running = FALSE,
               !.srvClosed = [c \in Conns |-> IF c = cs THEN TRUE ELSE @[c]],
               !.bridge.server_socket = IF @ = "none" THEN "none" ELSE "closed",
               !.shutdown.leftRunning = {p \in Range(M.active_relays) : Polls(M, p) /\ M.procs[p].terminated = 0}]

\* a mutant of stop: terminate() is called without asking poll()
stop_unpolled(M) ==
  LET mine == Range(M.active_relays)
      M1 == [M EXCEPT !.procs = [p \in Procs |-> IF p \in mine THEN [@[p] EXCEPT !.terminated = @ + 1] ELSE @[p]],
                      !.aliveAtStop = {p \in mine : Polls(M, p)}]
  IN [bridge_stop(M1) EXCEPT !.mstate = "stopped"]

\* a mutant of stop: the Bridge is closed before the children are terminated
stop_bridge_first(M) ==
  LET mine == Range(M.active_relays)
      M1 == bridge_stop(M)
  IN [M1 EXCEPT !.procs = [p \in Procs |-> IF p \in mine /\ Polls(M, p) THEN [@[p] EXCEPT !.terminated = @ + 1] ELSE @[p]],
                !.aliveAtStop = {p \in mine : Polls(M, p)}, !.mstate = "stopped"]

\* RelayManager.stop, up to the sys.exit(0) that ends it
stop(M) ==
  LET mine == Range(M.active_relays)
      M1 == [M EXCEPT !.procs = [p \in Procs |-> IF p \in mine /\ Polls(M, p) THEN [@[p] EXCEPT !.terminated = @ + 1] ELSE @[p]],
                      !.aliveAtStop = {p \in mine : Polls(M, p)}]
  IN [bridge_stop(M1) EXCEPT !.mstate = "stopped"]

Returned(M) == [M |-> M, raised |-> "none"]
Raised(M, what) == [M |-> M, raised |-> what]

\* _launch_agent up to Popen (lines 59-66): the agent is not running and cdp_agent.py exists, so Popen is called
launch_reaches_popen(M, agent_id) ==
  LET a == AgentKey(agent_id)
  IN ~(a \in DOMAIN M.active_relays /\ Polls(M, M.active_relays[a])) /\ M.scriptExists

\* _launch_agent from Popen on (lines 84-89), for a thread that tested the registry before other threads ran:
\* known tells what it found then. Once the root window is destroyed _log raises after the registry is written
launch_agent_popen(M, a, known, e) ==
  LET p == NextProc(M)
      entry == [agent |-> a, known |-> known, alive |-> FALSE, script |-> TRUE, spawnOk |-> e.spawnOk, before |-> M.active_relays, after |-> M.active_relays, spawned |-> {}]
      after == [k \in DOMAIN M.active_relays \cup {a} |-> IF k = a THEN p ELSE M.active_relays[k]]
      M1 == IF e.spawnOk
            THEN [M EXCEPT !.procs[p].state = "running", !.active_relays = after, !.launchLog = Append(@, [entry EXCEPT !.after = after, !.spawned = {p}])]
            ELSE [M EXCEPT !.launchLog = Append(@, entry)]
  IN IF M.mstate = "stopped" THEN Raised(M1, "Exception") ELSE Returned(broadcast_status(M1, e))

\* the thread M.thread begins op, which reads or writes active_relays
Runs(M, op) == [M EXCEPT !.offGuiThread = IF M.thread = "gui" THEN @ ELSE @ \cup {[op |-> op, thread |-> M.thread]}]

\* RelayManager.handle_bridge_event, run by the thread that calls the callbacks of the Bridge; once the root window
\* is destroyed, _log raises
handle_bridge_event(M, event_type, data, e) ==
  IF event_type \in {"connect", "disconnect"}
  THEN IF M.mstate = "stopped" THEN Raised(M, "Exception") ELSE Returned(broadcast_status(Runs(M, "broadcast_status"), e))
  ELSE LET msg_type == Get(data.metadata.v, "type", PyNone)
       IN IF msg_type = PyStr("system_command") /\ data.content = PyStr("shutdown")
          THEN IF M.mstate = "stopped" THEN Raised(M, "Exception") ELSE Raised(stop(Runs([M EXCEPT !.shutdown.by = "message"], "stop")), "SystemExit")
          ELSE IF msg_type = PyStr("launch_agent")
          THEN IF data.content.t # "dict" \/ M.mstate = "stopped" THEN Raised(M, "Exception")
               ELSE Returned(launch_agent(Runs(M, "_launch_agent"), Get(data.content.v, "agent_id", PyNone), e))
          ELSE Returned(M)

\* the index of the first newline of a buffer, 0 when it holds none
RECURSIVE FirstNewline(_, _)
FirstNewline(buffer, i) == IF i > Len(buffer) THEN 0 ELSE IF buffer[i].jt = "newline" THEN i ELSE FirstNewline(buffer, i + 1)

\* the message of line ln makes _launch_agent call Popen
LaunchesAgent(M, ln) ==
  /\ IsJsonObject(ln) /\ M.mstate # "stopped"
  /\ LET data == RelayFromJson(ln, M.now)
     IN /\ Get(data.metadata.v, "type", PyNone) = PyStr("launch_agent")
        /\ data.content.t = "dict"
        /\ launch_reaches_popen(M, Get(data.content.v, "agent_id", PyNone))

\* whether a thread may be left in Popen while it handles this buffer: only a launch_agent message calls Popen
Preemptions(buffer) ==
  IF \E i \in DOMAIN buffer : buffer[i].jt = "object" /\ buffer[i].jv.metadata.jv.type.jv = "launch_agent" THEN BOOLEAN ELSE {FALSE}

\* the inner loop of _listen_client, "while '\n' in buffer", for the thread reading connection c. Popen takes
\* time and other threads run meanwhile: with pre the loop is left at the first call of Popen, which
\* launching names, and is taken up again when Popen returns; without it the handler runs in one piece
RECURSIVE ListenLines(_, _, _, _, _)
ListenLines(M, buffer, c, e, pre) ==
  LET i == FirstNewline(buffer, 1)
      ln == SubSeq(buffer, 1, i - 1)
      rest == SubSeq(buffer, i + 1, Len(buffer))
  IN IF i = 0 THEN [M |-> M, buffer |-> buffer, raised |-> "none", bad |-> FALSE, launching |-> <<>>]
     ELSE IF ln = <<>> THEN ListenLines(M, rest, c, e, pre)
     ELSE IF ~IsJsonObject(ln) THEN [M |-> M, buffer |-> rest, raised |-> "Exception", bad |-> TRUE, launching |-> <<>>]
     ELSE IF pre /\ LaunchesAgent(M, ln)
     THEN LET a == AgentKey(Get(RelayFromJson(ln, M.now).content.v, "agent_id", PyNone))
          IN [M |-> Runs([M EXCEPT !.delivered[c] = Append(@, ln[1])], "_launch_agent"), buffer |-> rest, raised |-> "none", bad |-> FALSE,
              launching |-> <<[agent |-> a, known |-> a \in DOMAIN M.active_relays]>>]
     ELSE LET r == handle_bridge_event([M EXCEPT !.delivered[c] = Append(@, ln[1])], "message", RelayFromJson(ln, M.now), e)
          IN IF r.raised # "none" THEN [M |-> r.M, buffer |-> rest, raised |-> r.raised, bad |-> FALSE, launching |-> <<>>]
             ELSE ListenLines(r.M, rest, c, e, pre)

\* the memory of the Manager process, seen by the thread of the main loop
TheM ==
  [bridge |-> bridge, active_relays |-> active_relays, procs |-> procs, timers |-> timers, mstate |-> mstate, scriptExists |-> scriptExists,
   srvClosed |-> srvClosed, cliClosed |-> cliClosed, nConns |-> nConns, delivered |-> delivered, lastSend |-> lastSend, launchLog |-> launchLog,
   aliveAtStop |-> aliveAtStop, shutdown |-> shutdown, offGuiThread |-> offGuiThread, now |-> now, thread |-> "gui"]

\* the same when another thread runs
OnThread(th) == [TheM EXCEPT !.thread = th]

SetM(M) ==
  /\ bridge' = M.bridge /\ active_relays' = M.active_relays /\ procs' = M.procs /\ timers' = M.timers /\ mstate' = M.mstate
  /\ srvClosed' = M.srvClosed /\ nConns' = M.nConns /\ delivered' = M.delivered /\ lastSend' = M.lastSend /\ launchLog' = M.launchLog
  /\ aliveAtStop' = M.aliveAtStop /\ shutdown' = M.shutdown /\ offGuiThread' = M.offGuiThread

\* what the environment may do during a call: whether a write to a socket the peer closed still succeeds (one to an
\* open socket does), whether Popen succeeds
SendEnvs == [sendOk : IF \E c \in Conns : cliClosed[c] THEN BOOLEAN ELSE {TRUE}, spawnOk : {TRUE}]
Envs == [sendOk : IF \E c \in Conns : cliClosed[c] THEN BOOLEAN ELSE {TRUE}, spawnOk : BOOLEAN]

\* a thread of a read loop: where it is, the socket it reads, its buffer, whether it got a line that is no JSON
\* object, whether it gave its notification of the end
NoThread == [pc |-> "none", sock |-> 0, buffer |-> <<>>, bad |-> FALSE, notified |-> FALSE, launching |-> <<>>]
NewThread == [NoThread EXCEPT !.pc = "top"]

\* start_server has not been called
NoStart == [called |-> FALSE, bound |-> FALSE, running |-> FALSE, thread |-> FALSE, ready |-> <<>>, raised |-> FALSE]

\* stop() has not run
NoShutdown == [by |-> "none", leftRunning |-> {}]

RelayIdle ==
  /\ bridge = [running |-> FALSE, connected |-> FALSE, client_socket |-> 0, server_socket |-> "none"]
  /\ active_relays = <<>>
  /\ procs = [p \in Procs |-> [state |-> "unborn", terminated |-> 0]]
  /\ timers = "none" /\ pending = PyNone /\ mstate = "constructed" /\ scriptExists = TRUE /\ acceptPc = "none"
  /\ listeners = [c \in Conns |-> NoThread]
  /\ srvClosed = [c \in Conns |-> FALSE] /\ cliClosed = [c \in Conns |-> FALSE]
  /\ toBridge = [c \in Conns |-> <<>>]
  /\ nConns = 0 /\ nSent = 0 /\ nFired = 0
  /\ written = [c \in Conns |-> <<>>] /\ delivered = [c \in Conns |-> <<>>]
  /\ lastSend = NoSend /\ launchLog = <<>> /\ aliveAtStop = {} /\ shutdown = NoShutdown /\ startLog = NoStart /\ offGuiThread = {}

\* the state after RelayManager(): cdp_agent.py is beside relay_server.py, or it is not
RelayInit ==
  /\ bridge = [running |-> FALSE, connected |-> FALSE, client_socket |-> 0, server_socket |-> "none"]
  /\ active_relays = <<>>
  /\ procs = [p \in Procs |-> [state |-> "unborn", terminated |-> 0]]
  /\ timers = "none" /\ pending = PyNone /\ mstate = "constructed" /\ scriptExists \in BOOLEAN /\ acceptPc = "none"
  /\ listeners = [c \in Conns |-> NoThread]
  /\ srvClosed = [c \in Conns |-> FALSE] /\ cliClosed = [c \in Conns |-> FALSE]
  /\ toBridge = [c \in Conns |-> <<>>]
  /\ nConns = 0 /\ nSent = 0 /\ nFired = 0
  /\ written = [c \in Conns |-> <<>>] /\ delivered = [c \in Conns |-> <<>>]
  /\ lastSend = NoSend /\ launchLog = <<>> /\ aliveAtStop = {} /\ shutdown = NoShutdown /\ startLog = NoStart /\ offGuiThread = {}

\* what the world around the Manager has done so far: connections, messages, timers, closed sockets, exited agents, the closed window
Events ==
  nConns + nSent + nFired + Cardinality({c \in Conns : cliClosed[c]}) + Cardinality({p \in Procs : procs[p].state = "exited"}) + (IF mstate = "stopped" THEN 1 ELSE 0)

\* what may happen inside start_server: bind or listen raises, Thread.start raises, or neither
StartOutcomes == {"bind fails", "thread fails", "ok"}

\* a mutant of start_server: running is set before the socket is bound
start_server_running_first(B, outcome) ==
  IF outcome = "bind fails" THEN [bridge |-> [B EXCEPT !.server_socket = "unbound", !.running = TRUE], thread |-> FALSE, ready |-> <<"error">>, raised |-> FALSE]
  ELSE IF outcome = "thread fails" THEN [bridge |-> [B EXCEPT !.server_socket = "listening", !.running = TRUE], thread |-> FALSE, ready |-> <<"error">>, raised |-> FALSE]
  ELSE [bridge |-> [B EXCEPT !.server_socket = "listening", !.running = TRUE], thread |-> TRUE, ready |-> <<"running">>, raised |-> FALSE]

\* RelayBridge.start_server on the Bridge B, with _log as the ready callback, which does not raise while the root
\* window is there: the Bridge it leaves, whether the accept thread runs, the strings given to the callback
start_server(B, outcome) ==
  IF outcome = "bind fails" THEN [bridge |-> [B EXCEPT !.server_socket = "unbound"], thread |-> FALSE, ready |-> <<"error">>, raised |-> FALSE]
  ELSE IF outcome = "thread fails" THEN [bridge |-> [B EXCEPT !.server_socket = "listening", !.running = TRUE], thread |-> FALSE, ready |-> <<"error">>, raised |-> FALSE]
  ELSE [bridge |-> [B EXCEPT !.server_socket = "listening", !.running = TRUE], thread |-> TRUE, ready |-> <<"running">>, raised |-> FALSE]

\* RelayManager.start with RelayBridge.start_server
Start ==
  /\ mstate = "constructed"
  /\ \E outcome \in StartOutcomes :
       LET r == start_server(bridge, outcome)
       IN /\ bridge' = r.bridge
          /\ acceptPc' = IF r.thread THEN "accepting" ELSE "none"
          /\ startLog' = [called |-> TRUE, bound |-> outcome # "bind fails", running |-> r.bridge.running, thread |-> r.thread, ready |-> r.ready, raised |-> r.raised]
  /\ timers' = After(timers)
  /\ mstate' = "mainloop"
  /\ UNCHANGED <<active_relays, procs, pending, scriptExists, listeners, srvClosed, cliClosed, toBridge, nConns, nSent, nFired, written, delivered, lastSend, launchLog, aliveAtStop, shutdown, offGuiThread>>
  /\ UNCHANGED <<parseVars, dispatchVars, messageVars, clientVars, frameVars>>

\* a mutant of the accept step: the socket of the client before is left open
accept_keeping_old(M, c) == [M EXCEPT !.nConns = c, !.bridge.client_socket = c, !.bridge.connected = TRUE]

\* _accept_connections, lines 25-27 up to the callbacks: connection c is accepted
accept(M, c) ==
  LET old == M.bridge.client_socket
  IN [M EXCEPT !.nConns = c, !.srvClosed = [k \in Conns |-> IF k = old THEN TRUE ELSE @[k]], !.bridge.client_socket = c, !.bridge.connected = TRUE]

\* one turn of the loop of _accept_connections: a client connects
AcceptConnection ==
  /\ mstate = "mainloop" /\ acceptPc = "accepting" /\ bridge.running /\ bridge.server_socket = "listening"
  /\ nConns < MaxConns /\ Events < MaxEvents
  /\ \E e \in SendEnvs :
       LET c == nConns + 1
           r == handle_bridge_event(accept(OnThread("accept"), c), "connect", PyNone, e)
       IN /\ SetM(r.M)
          /\ listeners' = [listeners EXCEPT ![c] = NewThread]
  /\ UNCHANGED <<pending, scriptExists, startLog, acceptPc, cliClosed, toBridge, nSent, nFired, written>>
  /\ UNCHANGED <<parseVars, dispatchVars, messageVars, clientVars, frameVars>>

\* the end of _accept_connections: accept() raises on the closed server socket, or running is false
AcceptExit ==
  /\ mstate \in {"mainloop", "stopped"} /\ acceptPc = "accepting"
  /\ ~bridge.running \/ bridge.server_socket = "closed"
  /\ \E e \in SendEnvs :
       SetM(handle_bridge_event([OnThread("accept") EXCEPT !.bridge.connected = FALSE], "disconnect", PyNone, e).M)
  /\ acceptPc' = "done"
  /\ UNCHANGED <<pending, scriptExists, startLog, listeners, cliClosed, toBridge, nSent, nFired, written>>
  /\ UNCHANGED <<parseVars, dispatchVars, messageVars, clientVars, frameVars>>

\* line 40 of _listen_client: what follows the loop
ListenExit(M, e) == handle_bridge_event([M EXCEPT !.bridge.connected = FALSE], "disconnect", PyNone, e).M

\* _listen_client, thread t: the test of the while, then the call of recv on what client_socket is now
ListenTop(t) ==
  /\ mstate \in {"mainloop", "stopped"} /\ listeners[t].pc = "top"
  /\ IF bridge.running /\ bridge.connected
     THEN /\ listeners' = [listeners EXCEPT ![t].pc = "recv", ![t].sock = bridge.client_socket]
          /\ UNCHANGED <<bridge, active_relays, procs, timers, mstate, srvClosed, nConns, delivered, lastSend, launchLog, aliveAtStop, shutdown, offGuiThread>>
     ELSE /\ \E e \in SendEnvs : SetM(ListenExit(OnThread("read"), e))
          /\ listeners' = [listeners EXCEPT ![t].pc = "done", ![t].notified = TRUE]
  /\ UNCHANGED <<pending, scriptExists, startLog, acceptPc, cliClosed, toBridge, nSent, nFired, written>>
  /\ UNCHANGED <<parseVars, dispatchVars, messageVars, clientVars, frameVars>>

\* what the environment may do while this buffer is handled: Popen can fail only where it is called
RecvEnvs(buffer) == {e \in Envs : e.spawnOk \/ Preemptions(buffer) = BOOLEAN}

\* where the thread is after the inner loop: in Popen, at the top of the outer loop, or out by an exception
AfterLines(r) == IF r.launching # <<>> THEN "popen" ELSE IF r.raised = "none" THEN "top" ELSE "done"

\* _listen_client, thread t: recv returns a chunk, which is split in lines and given to the callbacks
ListenRecv(t) ==
  /\ mstate \in {"mainloop", "stopped"} /\ listeners[t].pc = "recv"
  /\ LET s == listeners[t].sock
     IN /\ ~srvClosed[s] /\ toBridge[s] # <<>>
        /\ \E n \in 1..Len(toBridge[s]) :
           \E e \in RecvEnvs(listeners[t].buffer \o SubSeq(toBridge[s], 1, n)), pre \in Preemptions(listeners[t].buffer \o SubSeq(toBridge[s], 1, n)) :
             LET r == ListenLines(OnThread("read"), listeners[t].buffer \o SubSeq(toBridge[s], 1, n), s, e, pre)
             IN /\ toBridge' = [toBridge EXCEPT ![s] = SubSeq(@, n + 1, Len(@))]
                /\ SetM(IF r.raised = "Exception" THEN ListenExit(r.M, e) ELSE r.M)
                /\ listeners' = [listeners EXCEPT ![t].pc = AfterLines(r), ![t].buffer = r.buffer, ![t].launching = r.launching,
                                                   ![t].bad = r.bad, ![t].notified = (r.raised = "Exception")]
  /\ UNCHANGED <<pending, scriptExists, startLog, acceptPc, cliClosed, nSent, nFired, written>>
  /\ UNCHANGED <<parseVars, dispatchVars, messageVars, clientVars, frameVars>>

\* _listen_client, thread t: Popen returns in _launch_agent, which goes on from line 86; then the inner loop goes
\* on with the lines left in the buffer
ListenPopen(t) ==
  /\ mstate \in {"mainloop", "stopped"} /\ listeners[t].pc = "popen"
  /\ \E e \in Envs, pre \in Preemptions(listeners[t].buffer) :
       LET l == listeners[t].launching[1]
           r0 == launch_agent_popen(OnThread("read"), l.agent, l.known, e)
           r == IF r0.raised # "none" THEN [M |-> r0.M, buffer |-> listeners[t].buffer, raised |-> r0.raised, bad |-> FALSE, launching |-> <<>>]
                ELSE ListenLines(r0.M, listeners[t].buffer, listeners[t].sock, e, pre)
       IN /\ SetM(IF r.raised = "Exception" THEN ListenExit(r.M, e) ELSE r.M)
          /\ listeners' = [listeners EXCEPT ![t].pc = AfterLines(r), ![t].buffer = r.buffer, ![t].launching = r.launching,
                                             ![t].bad = r.bad, ![t].notified = (r.raised = "Exception")]
  /\ UNCHANGED <<pending, scriptExists, startLog, acceptPc, cliClosed, toBridge, nSent, nFired, written>>
  /\ UNCHANGED <<parseVars, dispatchVars, messageVars, clientVars, frameVars>>

\* _listen_client, thread t: recv returns nothing since the client closed, or raises since the Bridge closed the socket
\* (a recv that blocks on a socket closed meanwhile raises on one platform and stays blocked on another)
ListenEnd(t) ==
  /\ mstate \in {"mainloop", "stopped"} /\ listeners[t].pc = "recv"
  /\ LET s == listeners[t].sock
     IN srvClosed[s] \/ (cliClosed[s] /\ toBridge[s] = <<>>)
  /\ \E e \in SendEnvs : SetM(ListenExit(OnThread("read"), e))
  /\ listeners' = [listeners EXCEPT ![t].pc = "done", ![t].notified = TRUE]
  /\ UNCHANGED <<pending, scriptExists, startLog, acceptPc, cliClosed, toBridge, nSent, nFired, written>>
  /\ UNCHANGED <<parseVars, dispatchVars, messageVars, clientVars, frameVars>>

\* the messages a client writes: chat, launch_agent, launch_agent with a text for content, shutdown
ClientMessages(k) ==
  LET id == PyStr(<<"m1", "m2", "m3", "m4">>[k])
  IN { SimpleMessageInit(PyStr("User"), PyStr("hello"), PyStr("outgoing"), PyStr("chat"), id, PyNone, now),
       SimpleMessageInit(PyStr("System"), LaunchContent, PyStr("outgoing"), PyStr("launch_agent"), id, PyNone, now),
       SimpleMessageInit(PyStr("System"), PyStr("a1"), PyStr("outgoing"), PyStr("launch_agent"), id, PyNone, now),
       SimpleMessageInit(PyStr("System"), PyStr("shutdown"), PyStr("outgoing"), PyStr("system_command"), id, PyNone, now) }

\* the lines a client writes: the messages, and a line that is no JSON
ClientLines(k) == {to_json(m) : m \in ClientMessages(k)} \cup {Junk}

\* the client of connection c writes a line and its newline
ClientSend(c) ==
  /\ mstate \in {"mainloop", "stopped"} /\ c <= nConns /\ ~cliClosed[c] /\ ~srvClosed[c]
  /\ nSent < MaxMsgs /\ Events < MaxEvents
  /\ \E ln \in ClientLines(nSent + 1) :
       /\ toBridge' = [toBridge EXCEPT ![c] = @ \o <<ln, Newline>>]
       /\ written' = [written EXCEPT ![c] = Append(@, ln)]
  /\ nSent' = nSent + 1
  /\ UNCHANGED <<bridge, active_relays, procs, timers, pending, mstate, scriptExists, startLog, acceptPc, listeners, srvClosed, cliClosed, nConns, nFired, delivered, lastSend, launchLog, aliveAtStop, shutdown, offGuiThread>>
  /\ UNCHANGED <<parseVars, dispatchVars, messageVars, clientVars, frameVars>>

\* the client of connection c closes its socket
ClientClose(c) ==
  /\ mstate \in {"mainloop", "stopped"} /\ c <= nConns /\ ~cliClosed[c] /\ Events < MaxEvents
  /\ cliClosed' = [cliClosed EXCEPT ![c] = TRUE]
  /\ UNCHANGED <<bridge, active_relays, procs, timers, pending, mstate, scriptExists, startLog, acceptPc, listeners, srvClosed, toBridge, nConns, nSent, nFired, written, delivered, lastSend, launchLog, aliveAtStop, shutdown, offGuiThread>>
  /\ UNCHANGED <<parseVars, dispatchVars, messageVars, clientVars, frameVars>>

\* an agent process exits
ProcExit(p) ==
  /\ mstate \in {"mainloop", "stopped"} /\ procs[p].state = "running" /\ Events < MaxEvents
  /\ procs' = [procs EXCEPT ![p].state = "exited"]
  /\ UNCHANGED <<bridge, active_relays, timers, pending, mstate, scriptExists, startLog, acceptPc, listeners, srvClosed, cliClosed, toBridge, nConns, nSent, nFired, written, delivered, lastSend, launchLog, aliveAtStop, shutdown, offGuiThread>>
  /\ UNCHANGED <<parseVars, dispatchVars, messageVars, clientVars, frameVars>>

\* a timer of root.after(5000, self.broadcast_status) fires in the main loop: lines 105-112, the test of
\* bridge.connected and the status_msg
TimerFire ==
  /\ mstate = "mainloop" /\ timers # "none" /\ pending = PyNone
  /\ IF bridge.connected
     THEN Events < MaxEvents /\ pending' = StatusMessage(TheM) /\ timers' = Fired(timers) /\ nFired' = nFired + 1
     ELSE pending' = pending /\ timers' = After(Fired(timers)) /\ nFired' = nFired
  /\ UNCHANGED <<bridge, active_relays, procs, mstate, scriptExists, startLog, acceptPc, listeners, srvClosed, cliClosed, toBridge, nConns, nSent, written, delivered, lastSend, launchLog, aliveAtStop, shutdown, offGuiThread>>
  /\ UNCHANGED <<parseVars, dispatchVars, messageVars, clientVars, frameVars>>

\* the main loop goes on in broadcast_status: lines 113-114, send_to_gui and the next timer (none once the root
\* window is destroyed: winfo_exists raises)
TimerSend ==
  /\ pending # PyNone
  /\ \E e \in SendEnvs :
       LET M1 == send_to_gui(TheM, pending.v, e)
       IN SetM(IF mstate = "stopped" THEN M1 ELSE [M1 EXCEPT !.timers = After(@)])
  /\ pending' = PyNone
  /\ UNCHANGED <<scriptExists, startLog, acceptPc, listeners, cliClosed, toBridge, nSent, nFired, written>>
  /\ UNCHANGED <<parseVars, dispatchVars, messageVars, clientVars, frameVars>>

\* WM_DELETE_WINDOW: the window is closed, the main loop runs stop()
WindowClose ==
  /\ mstate = "mainloop" /\ pending = PyNone /\ Events < MaxEvents
  /\ SetM(stop([TheM EXCEPT !.shutdown.by = "window"]))
  /\ UNCHANGED <<pending, scriptExists, startLog, acceptPc, listeners, cliClosed, toBridge, nSent, nFired, written>>
  /\ UNCHANGED <<parseVars, dispatchVars, messageVars, clientVars, frameVars>>

(***************************************************************************)
(* BridgeClient (src/backups/ai_codebox_app.py:49-106)                     *)
(***************************************************************************)
Socks == 1..MaxConns

NoCallYet == [called |-> FALSE, connectedBefore |-> FALSE, ret |-> FALSE, msg |-> JNull, sock |-> 0]

NoConnectYet == [called |-> FALSE, connectedBefore |-> FALSE, ret |-> FALSE, newSocket |-> FALSE, newThread |-> FALSE, usable |-> FALSE, connectedAfter |-> FALSE]

\* the state after BridgeClient()
ClientIdle ==
  /\ client = [connected |-> FALSE, running |-> FALSE, socket |-> 0, root_ref |-> FALSE, callbacks |-> 0]
  /\ sockets = [k \in Socks |-> "none"] /\ peerClosed = [k \in Socks |-> FALSE]
  /\ readers = [k \in Socks |-> NoThread]
  /\ toClient = [k \in Socks |-> <<>>] /\ wire = [k \in Socks |-> <<>>]
  /\ idle = <<>> /\ nCalls = 0 /\ nLines = 0 /\ whileDisconnected = {} /\ lastCall = NoCallYet
  /\ offlineRun = [n \in 1..MaxCallbacks |-> 0] /\ lastConnect = NoConnectYet

\* the memory send_message reads and writes
TheK == [client |-> client, sockets |-> sockets, peerClosed |-> peerClosed, wire |-> wire, whileDisconnected |-> whileDisconnected, lastCall |-> lastCall]

\* sendall on the client's socket raises: there is no socket, it is not connected, or the peer closed and the write is refused
SendallRaises(K, sendOk) ==
  LET k == K.client.socket
  IN k = 0 \/ K.sockets[k] # "connected" \/ (K.peerClosed[k] /\ ~sendOk)

\* a mutant of send_message: the connected flag is not tested before the write
send_message_unguarded(K, message, sendOk) ==
  LET k == K.client.socket
      seen == [NoCallYet EXCEPT !.called = TRUE, !.connectedBefore = K.client.connected, !.msg = to_json(message), !.sock = k]
      K1 == IF K.client.connected THEN K ELSE [K EXCEPT !.whileDisconnected = @ \cup {to_json(message)}]
  IN IF SendallRaises(K, sendOk) THEN [K1 EXCEPT !.lastCall = seen]
     ELSE [K1 EXCEPT !.wire[k] = @ \o <<to_json(message), Newline>>, !.lastCall = [seen EXCEPT !.ret = TRUE]]

\* BridgeClient.send_message
send_message(K, message, sendOk) ==
  LET k == K.client.socket
      seen == [NoCallYet EXCEPT !.called = TRUE, !.connectedBefore = K.client.connected, !.msg = to_json(message), !.sock = k]
  IN IF ~K.client.connected THEN [K EXCEPT !.whileDisconnected = @ \cup {to_json(message)}, !.lastCall = seen]
     ELSE IF SendallRaises(K, sendOk) THEN [K EXCEPT !.lastCall = seen]
     ELSE [K EXCEPT !.wire[k] = @ \o <<to_json(message), Newline>>, !.lastCall = [seen EXCEPT !.ret = TRUE]]

\* what the GUI and the Bridge have done so far: sockets made, messages sent, lines written, sockets closed
ClientEvents ==
  Cardinality({k \in Socks : sockets[k] # "none"}) + nCalls + Cardinality({k \in Socks : peerClosed[k]})
  + Cardinality({k \in Socks : sockets[k] = "closed"}) + nLines

\* the next socket socket.socket() makes
NextSock == Cardinality({k \in Socks : sockets[k] # "none"}) + 1

\* the application sets the root window and its callback (ai_codebox_app.py:707)
SetRootRef ==
  /\ ~client.root_ref
  /\ client' = [client EXCEPT !.root_ref = TRUE, !.callbacks = 1]
  /\ UNCHANGED <<sockets, peerClosed, readers, toClient, wire, idle, nCalls, nLines, whileDisconnected, lastCall, lastConnect, offlineRun>>
  /\ UNCHANGED <<parseVars, dispatchVars, messageVars, relayVars, frameVars>>

\* BridgeClient.add_callback with one more callback
AddCallback ==
  /\ client.root_ref /\ client.callbacks < MaxCallbacks
  /\ client' = [client EXCEPT !.callbacks = @ + 1]
  /\ UNCHANGED <<sockets, peerClosed, readers, toClient, wire, idle, nCalls, nLines, whileDisconnected, lastCall, lastConnect, offlineRun>>
  /\ UNCHANGED <<parseVars, dispatchVars, messageVars, relayVars, frameVars>>

\* BridgeClient.connect, called by the application once it is built: nothing when connected; else a new socket,
\* which connects or does not
Connect ==
  /\ client.root_ref /\ ClientEvents < MaxEvents
  /\ IF client.connected
     THEN /\ lastConnect' = [called |-> TRUE, connectedBefore |-> TRUE, ret |-> TRUE, newSocket |-> FALSE, newThread |-> FALSE,
                              usable |-> client.socket \in Socks /\ sockets[client.socket] = "connected" /\ ~peerClosed[client.socket],
                              connectedAfter |-> TRUE]
          /\ UNCHANGED <<client, sockets, readers>>
     ELSE /\ NextSock <= MaxConns
          /\ \E ok \in BOOLEAN :
               LET k == NextSock
               IN /\ sockets' = [sockets EXCEPT ![k] = IF ok THEN "connected" ELSE "unconnected"]
                  /\ client' = IF ok THEN [client EXCEPT !.socket = k, !.connected = TRUE, !.running = TRUE] ELSE [client EXCEPT !.socket = k]
                  /\ readers' = IF ok THEN [readers EXCEPT ![k] = NewThread] ELSE readers
                  /\ lastConnect' = [called |-> TRUE, connectedBefore |-> FALSE, ret |-> ok, newSocket |-> TRUE, newThread |-> ok, usable |-> ok, connectedAfter |-> ok]
  /\ UNCHANGED <<peerClosed, toClient, wire, idle, nCalls, nLines, whileDisconnected, lastCall, offlineRun>>
  /\ UNCHANGED <<parseVars, dispatchVars, messageVars, relayVars, frameVars>>

\* the GUI calls send_message with a chat message or an order for the Manager
SendMessage ==
  /\ nCalls < MaxMsgs /\ ClientEvents < MaxEvents
  /\ \E m \in ClientMessages(nCalls + 1), sendOk \in (IF \E k \in Socks : peerClosed[k] THEN BOOLEAN ELSE {TRUE}) :
       LET K == send_message(TheK, m, sendOk)
       IN wire' = K.wire /\ whileDisconnected' = K.whileDisconnected /\ lastCall' = K.lastCall /\ client' = K.client
  /\ nCalls' = nCalls + 1
  /\ UNCHANGED <<sockets, peerClosed, readers, toClient, idle, nLines, lastConnect, offlineRun>>
  /\ UNCHANGED <<parseVars, dispatchVars, messageVars, relayVars, frameVars>>

\* the end of _listen_for_messages: connected is false, the Offline status is left for the first callback
ReaderExit(c) ==
  [c EXCEPT !.connected = FALSE]

\* a mutant of the end of the loop: every callback is given the Offline status
IdleAfterExit_all ==
  IF client.root_ref
  THEN idle \o [n \in 1..client.callbacks |-> [cb |-> n, kind |-> "offline", msg |-> PyDict(SimpleMessageInit(PyStr("System"), PyDict([manager |-> PyTuple(<<PyStr("Offline"), PyStr("red")>>)]), PyStr("incoming"), PyStr("status_update"), PyNone, PyNone, now))]]
  ELSE idle

OfflineStatus == [cb |-> 1, kind |-> "offline", msg |-> PyDict(SimpleMessageInit(PyStr("System"), PyDict([manager |-> PyTuple(<<PyStr("Offline"), PyStr("red")>>)]), PyStr("incoming"), PyStr("status_update"), PyNone, PyNone, now))]

IdleAfterExit == IF client.callbacks > 0 /\ client.root_ref THEN Append(idle, OfflineStatus) ELSE idle

\* _listen_for_messages, thread t: the test of running, then the call of recv on what self.socket is now
ReaderTop(t) ==
  /\ readers[t].pc = "top"
  /\ IF client.running
     THEN readers' = [readers EXCEPT ![t].pc = "recv", ![t].sock = client.socket] /\ UNCHANGED <<client, idle>>
     ELSE idle' = IdleAfterExit /\ readers' = [readers EXCEPT ![t].pc = "done", ![t].notified = (idle' # idle)] /\ client' = ReaderExit(client)
  /\ UNCHANGED <<sockets, peerClosed, toClient, wire, nCalls, nLines, whileDisconnected, lastCall, lastConnect, offlineRun>>
  /\ UNCHANGED <<parseVars, dispatchVars, messageVars, relayVars, frameVars>>

\* the loop over the callbacks left after its first turn
IdleCalls_first(ln, n) ==
  IF n = 0 \/ ~client.root_ref \/ ~IsJsonObject(ln) THEN <<>>
  ELSE <<[cb |-> 1, kind |-> "line", msg |-> PyDict(GuiFromJson(ln, now))]>>

\* the after_idle calls one line gives: one per callback, none when from_json raises or no root window is set
RECURSIVE IdleCalls(_, _)
IdleCalls(ln, n) ==
  IF n = 0 \/ ~client.root_ref \/ ~IsJsonObject(ln) THEN <<>>
  ELSE Append(IdleCalls(ln, n - 1), [cb |-> n, kind |-> "line", msg |-> PyDict(GuiFromJson(ln, now))])

\* the inner loop of _listen_for_messages: the lines of the buffer, each given to the callbacks
RECURSIVE ReaderLines(_, _, _)
ReaderLines(buffer, calls, bad) ==
  LET i == FirstNewline(buffer, 1)
      ln == SubSeq(buffer, 1, i - 1)
  IN IF i = 0 THEN [buffer |-> buffer, calls |-> calls, bad |-> bad]
     ELSE ReaderLines(SubSeq(buffer, i + 1, Len(buffer)), IF ln = <<>> THEN calls ELSE calls \o IdleCalls(ln, client.callbacks),
                      bad \/ (ln # <<>> /\ ~IsJsonObject(ln)))

\* _listen_for_messages, thread t: recv returns a chunk
ReaderRecv(t) ==
  /\ readers[t].pc = "recv"
  /\ LET k == readers[t].sock
     IN /\ sockets[k] = "connected" /\ toClient[k] # <<>>
        /\ \E n \in 1..Len(toClient[k]) :
             LET r == ReaderLines(readers[t].buffer \o SubSeq(toClient[k], 1, n), <<>>, readers[t].bad)
             IN /\ toClient' = [toClient EXCEPT ![k] = SubSeq(@, n + 1, Len(@))]
                /\ readers' = [readers EXCEPT ![t].pc = "top", ![t].buffer = r.buffer, ![t].bad = r.bad]
                /\ idle' = idle \o r.calls
  /\ UNCHANGED <<client, sockets, peerClosed, wire, nCalls, nLines, whileDisconnected, lastCall, lastConnect, offlineRun>>
  /\ UNCHANGED <<parseVars, dispatchVars, messageVars, relayVars, frameVars>>

\* _listen_for_messages, thread t: recv returns nothing since the Bridge closed, or raises since the socket is
\* closed or was never connected
ReaderEnd(t) ==
  /\ readers[t].pc = "recv"
  /\ LET k == readers[t].sock
     IN sockets[k] # "connected" \/ (peerClosed[k] /\ toClient[k] = <<>>)
  /\ idle' = IdleAfterExit
  /\ readers' = [readers EXCEPT ![t].pc = "done", ![t].notified = (idle' # idle)]
  /\ client' = ReaderExit(client)
  /\ UNCHANGED <<sockets, peerClosed, toClient, wire, nCalls, nLines, whileDisconnected, lastCall, lastConnect, offlineRun>>
  /\ UNCHANGED <<parseVars, dispatchVars, messageVars, relayVars, frameVars>>

\* the main loop of the GUI runs the first call given to after_idle
IdleRun ==
  /\ idle # <<>>
  /\ idle' = Tail(idle)
  /\ offlineRun' = IF Head(idle).kind = "offline" THEN [offlineRun EXCEPT ![Head(idle).cb] = @ + 1] ELSE offlineRun
  /\ UNCHANGED <<client, sockets, peerClosed, readers, toClient, wire, nCalls, nLines, whileDisconnected, lastCall, lastConnect>>
  /\ UNCHANGED <<parseVars, dispatchVars, messageVars, relayVars, frameVars>>

\* BridgeClient.stop
ClientStop ==
  /\ client.running /\ ClientEvents < MaxEvents
  /\ client' = [client EXCEPT !.running = FALSE]
  /\ sockets' = [k \in Socks |-> IF k = client.socket /\ sockets[k] # "none" THEN "closed" ELSE sockets[k]]
  /\ UNCHANGED <<peerClosed, readers, toClient, wire, idle, nCalls, nLines, whileDisconnected, lastCall, lastConnect, offlineRun>>
  /\ UNCHANGED <<parseVars, dispatchVars, messageVars, relayVars, frameVars>>

\* the lines that reach the client: the status line of the Manager, and a line that is no JSON
BridgeLines == {json_dumps(PyDict(SimpleMessageInit(PyStr("System"), StatusContent, PyStr("incoming"), PyStr("status_update"), PyNone, PyNone, now))), Junk}

\* the Bridge's end writes a line to the connection of socket k
BridgeWrites(k) ==
  /\ sockets[k] = "connected" /\ ~peerClosed[k] /\ nLines < MaxMsgs /\ ClientEvents < MaxEvents
  /\ \E ln \in BridgeLines : toClient' = [toClient EXCEPT ![k] = @ \o <<ln, Newline>>]
  /\ nLines' = nLines + 1
  /\ UNCHANGED <<client, sockets, peerClosed, readers, wire, idle, nCalls, whileDisconnected, lastCall, lastConnect, offlineRun>>
  /\ UNCHANGED <<parseVars, dispatchVars, messageVars, relayVars, frameVars>>

\* the Bridge closes the connection of socket k
BridgeCloses(k) ==
  /\ sockets[k] \in {"connected", "closed"} /\ ~peerClosed[k] /\ ClientEvents < MaxEvents
  /\ peerClosed' = [peerClosed EXCEPT ![k] = TRUE]
  /\ UNCHANGED <<client, sockets, readers, toClient, wire, idle, nCalls, nLines, whileDisconnected, lastCall, lastConnect, offlineRun>>
  /\ UNCHANGED <<parseVars, dispatchVars, messageVars, relayVars, frameVars>>

(***************************************************************************)
(* The read loop on a stream of bytes (src/relay_server.py:30-40)          *)
(***************************************************************************)
\* the two bytes of a character UTF-8 writes on two bytes, and that character
LEAD == "<C3>"
CONT == "<A1>"
ACCENTED == "<U+00E1>"

\* the characters of the lines clients write; "a" stands for any character of one byte that is no white space
FrameChars == {"a", SPACE, NL, ACCENTED}

\* str.encode('utf-8')
RECURSIVE utf8_encode(_)
utf8_encode(text) ==
  IF text = <<>> THEN <<>>
  ELSE (IF Head(text) = ACCENTED THEN <<LEAD, CONT>> ELSE <<Head(text)>>) \o utf8_encode(Tail(text))

\* bytes.decode('utf-8'): ok is false when it raises UnicodeDecodeError
RECURSIVE utf8_decode(_)
utf8_decode(bs) ==
  IF bs = <<>> THEN [ok |-> TRUE, text |-> <<>>]
  ELSE IF Head(bs) = CONT THEN [ok |-> FALSE, text |-> <<>>]
  ELSE IF Head(bs) = LEAD
       THEN IF Len(bs) < 2 \/ bs[2] # CONT THEN [ok |-> FALSE, text |-> <<>>]
            ELSE LET r == utf8_decode(SubSeq(bs, 3, Len(bs))) IN [ok |-> r.ok, text |-> <<ACCENTED>> \o r.text]
  ELSE LET r == utf8_decode(Tail(bs)) IN [ok |-> r.ok, text |-> <<Head(bs)>> \o r.text]

\* the index of the first newline of a text from i on, 0 when there is none
RECURSIVE IndexOfNL(_, _)
IndexOfNL(text, i) == IF i > Len(text) THEN 0 ELSE IF text[i] = NL THEN i ELSE IndexOfNL(text, i + 1)

\* "while '\n' in buffer": each line that is not blank is given to the callbacks, the rest stays in the buffer;
\* the lines clients write are JSON objects, which from_json takes
RECURSIVE SplitLines(_, _)
SplitLines(buf, evs) ==
  LET i == IndexOfNL(buf, 1)
      ln == SubSeq(buf, 1, i - 1)
  IN IF i = 0 THEN [buffer |-> buf, events |-> evs]
     ELSE SplitLines(SubSeq(buf, i + 1, Len(buf)), IF Strip(ln) # <<>> THEN Append(evs, ln) ELSE evs)

FrameIdle == sent = <<>> /\ unread = <<>> /\ frameBuffer = <<>> /\ events = <<>> /\ framePc = "none"

\* a client has written a text, encoded as send_message and send_to_gui encode it, and _listen_client begins
FrameInit ==
  /\ sent \in {utf8_encode(text) : text \in SeqsUpTo(FrameChars, MaxStream)}
  /\ unread = sent /\ frameBuffer = <<>> /\ events = <<>> /\ framePc = "recv"

\* one turn of the loop of _listen_client: recv returns the next bytes, as many as the network gives at once
FrameRecv ==
  /\ framePc = "recv" /\ unread # <<>>
  /\ \E n \in 1..Len(unread) :
       LET data == utf8_decode(SubSeq(unread, 1, n))
           r == SplitLines(frameBuffer \o data.text, events)
       IN /\ unread' = SubSeq(unread, n + 1, Len(unread))
          /\ IF data.ok
             THEN frameBuffer' = r.buffer /\ events' = r.events /\ framePc' = "recv"
             ELSE frameBuffer' = frameBuffer /\ events' = events /\ framePc' = "done"
  /\ UNCHANGED sent
  /\ UNCHANGED <<parseVars, dispatchVars, messageVars, relayVars, clientVars>>

(***************************************************************************)
(* Specification of the Bridge and the Manager                             *)
(***************************************************************************)
InitRelay == RelayInit /\ ParseIdle /\ DispatchIdle /\ MessageIdle /\ ClientIdle /\ FrameIdle

NextRelay ==
  \/ Start
  \/ AcceptConnection
  \/ AcceptExit
  \/ \E t \in Conns : ListenTop(t)
  \/ \E t \in Conns : ListenRecv(t)
  \/ \E t \in Conns : ListenPopen(t)
  \/ \E t \in Conns : ListenEnd(t)
  \/ \E c \in Conns : ClientSend(c)
  \/ \E c \in Conns : ClientClose(c)
  \/ \E p \in Procs : ProcExit(p)
  \/ TimerFire
  \/ TimerSend
  \/ WindowClose

SpecRelay == InitRelay /\ [][NextRelay]_vars

\* recv returns the empty read: the client closed the connection and the Bridge did not close its socket
ListenEof(t) == ListenEnd(t) /\ ~srvClosed[listeners[t].sock]

\* what the threads of the Bridge are sure to do: a read loop at the top of its loop goes on, a recv for which
\* bytes or the end of the stream have arrived returns, Popen returns. A thread blocked in accept or in recv on a socket that
\* another thread closes is woken on one platform and stays blocked on another: nothing is promised for it
RelayFairness ==
  \A t \in Conns : WF_vars(ListenTop(t)) /\ WF_vars(ListenRecv(t)) /\ WF_vars(ListenPopen(t)) /\ WF_vars(ListenEof(t))

SpecRelayFair == SpecRelay /\ RelayFairness

(***************************************************************************)
(* Specification of the BridgeClient                                       *)
(***************************************************************************)
InitClient == ClientIdle /\ ParseIdle /\ DispatchIdle /\ MessageIdle /\ RelayIdle /\ FrameIdle

NextClient ==
  \/ SetRootRef
  \/ AddCallback
  \/ Connect
  \/ SendMessage
  \/ \E t \in Socks : ReaderTop(t)
  \/ \E t \in Socks : ReaderRecv(t)
  \/ \E t \in Socks : ReaderEnd(t)
  \/ IdleRun
  \/ ClientStop
  \/ \E k \in Socks : BridgeWrites(k)
  \/ \E k \in Socks : BridgeCloses(k)

SpecClient == InitClient /\ [][NextClient]_vars

(***************************************************************************)
(* Specifications of the tool-call code                                    *)
(***************************************************************************)
InitParse == ParseInit /\ DispatchIdle /\ MessageIdle /\ RelayIdle /\ ClientIdle /\ FrameIdle

NextParse == ParseToolAction

SpecParse == InitParse /\ [][NextParse]_vars

InitDispatch == DispatchInit /\ ParseIdle /\ MessageIdle /\ RelayIdle /\ ClientIdle /\ FrameIdle

NextDispatch == ProcessAiResponse

SpecDispatch == InitDispatch /\ [][NextDispatch]_vars

InitMessage == MessageIdle /\ ParseIdle /\ DispatchIdle /\ RelayIdle /\ ClientIdle /\ FrameIdle

NextMessage == Tick \/ Construct \/ ToJson \/ FromJsonManager \/ FromJsonGui

SpecMessage == InitMessage /\ [][NextMessage]_vars

InitFraming == FrameInit /\ ParseIdle /\ DispatchIdle /\ MessageIdle /\ RelayIdle /\ ClientIdle

NextFraming == FrameRecv

SpecFraming == InitFraming /\ [][NextFraming]_vars

(***************************************************************************)
(* Claims about the tool-call code                                         *)
(***************************************************************************)
\* an argument text made of plain characters and of escape pairs only
RECURSIVE IsEscaped(_)
IsEscaped(a) ==
  \/ a = <<>>
  \/ Len(a) >= 2 /\ a[1] = BSL /\ IsEscaped(SubSeq(a, 3, Len(a)))
  \/ a[1] \notin {BSL, QUOTE} /\ IsEscaped(Tail(a))

\* what one escape pair, a backslash and c, stands for
Unescaped(c) == IF c = "n" THEN <<NL>> ELSE IF c = "t" THEN <<TAB>> ELSE IF c \in {QUOTE, BSL} THEN <<c>> ELSE <<BSL, c>>

\* the decoding a single left-to-right pass gives
RECURSIVE SinglePass(_)
SinglePass(a) ==
  IF a = <<>> THEN <<>>
  ELSE IF a[1] = BSL /\ Len(a) >= 2 THEN Unescaped(a[2]) \o SinglePass(SubSeq(a, 3, Len(a)))
  ELSE <<a[1]>> \o SinglePass(Tail(a))

\* C4: for a call written with escaped argument texts, parse_tool_action returns the
\* tool name and each argument decoded exactly once, as a single left-to-right pass
\* decodes it (an escaped backslash gives one backslash whatever follows it).
C4_DecodedExactlyOnce ==
  (parseResult.done /\ call.structured /\ \A k \in 1..Len(call.args) : (IsEscaped(call.args[k]) /\ \A i \in DOMAIN call.args[k] : call.args[k][i] # ")"))
    => parseResult.value = [found |-> TRUE, name |-> call.name, args |-> [k \in 1..Len(call.args) |-> SinglePass(call.args[k])]]

\* a line holds a call when TOOL_ACTION( is followed, anywhere later, by a closing parenthesis
HasCall(l) == \E i \in 1..Len(l), j \in 1..Len(l) : i + 2 <= j /\ l[i] = TOOL_ACTION /\ l[i + 1] = "(" /\ l[j] = ")"

\* C8: for every line that holds no TOOL_ACTION(...) call, parse_tool_action
\* returns (None, None).
C8_NoCallGivesNone == (parseResult.done /\ ~HasCall(line)) => parseResult.value = NoneNone

\* C8 witness: parse_tool_action has returned for a line that opens a call with a
\* quoted name and never closes it.
C8_Witness == parseResult.done /\ ~HasCall(line) /\ Len(line) >= 4 /\ line[1] = TOOL_ACTION /\ line[2] = "(" /\ line[3] = QUOTE /\ line[4] = QUOTE

\* the lines of the response that name a tool the registry does not hold
UnknownCalls == {k \in 1..Len(SplitNL(response, <<>>)) : LET p == parse_tool_action(SplitNL(response, <<>>)[k]) IN p.found /\ p.name # <<>> /\ p.name \notin TOOL_REGISTRY}

\* C7: once the dispatcher has returned, every call of the response that names a tool
\* not in the registry has an "unknown command" result for the chat, and no tool
\* function was invoked for it.
C7_UnknownToolReported ==
  dispatched => \A k \in UnknownCalls :
    LET n == parse_tool_action(SplitNL(response, <<>>)[k]).name
    IN /\ \/ \E i \in 1..Len(emitted) : emitted[i].type = "unknown_command" /\ emitted[i].tool = n
          \/ \E i \in 1..Len(chatSent) : chatSent[i].type = "unknown_command" /\ chatSent[i].tool = n
       /\ \A i \in 1..Len(invoked) : invoked[i].tool # n

(***************************************************************************)
(* Claims about SimpleMessage                                              *)
(***************************************************************************)
\* a value json.dumps and json.loads give back as it was: no tuple in it
RECURSIVE IsJsonNative(_)
IsJsonNative(x) ==
  IF x.t \in {"None", "str"} THEN TRUE
  ELSE IF x.t = "tuple" THEN FALSE
  ELSE \A k \in DOMAIN x.v : IsJsonNative(x.v[k])

\* C3: a message whose content holds strings, dicts and lists only, parsed back from
\* its own JSON text, equals the message field by field (agent_id, content,
\* direction, timestamp, msg_id, metadata), in the Manager's SimpleMessage and in
\* the GUI's.
C3_RoundTrip ==
  (m0 # PyNone /\ IsJsonNative(m0.content)) => ((mgrMsg # PyNone => mgrMsg = m0) /\ (guiMsg # PyNone => guiMsg = m0))

\* the same round trip for the GUI's SimpleMessage alone, which updates every field from the data
RoundTripGui == (m0 # PyNone /\ IsJsonNative(m0.content) /\ guiMsg # PyNone) => guiMsg = m0

\* the fields the Manager's SimpleMessage gives back: all but the timestamp
RoundTripManagerButTimestamp ==
  (m0 # PyNone /\ IsJsonNative(m0.content) /\ mgrMsg # PyNone) => [mgrMsg EXCEPT !.timestamp = m0.timestamp] = m0

(***************************************************************************)
(* Claims about the Bridge and the Manager                                 *)
(***************************************************************************)
\* a connection that is open: accepted, and closed by neither side
IsOpen(c) == c <= nConns /\ ~srvClosed[c] /\ ~cliClosed[c]

\* C9: send_to_gui never raises; when the Bridge is not connected it returns false and writes nothing; when
\* the write fails it returns false and leaves connected false; it returns true only when the whole JSON
\* line and its newline were written
C9_SendToGuiNeverRaises ==
  lastSend.called =>
    /\ ~lastSend.raised
    /\ ~lastSend.connectedBefore => (~lastSend.ret /\ lastSend.wrote = <<>> /\ ~lastSend.failed)
    /\ lastSend.failed => (~lastSend.ret /\ lastSend.wrote = <<>> /\ ~lastSend.connectedAfter)
    /\ lastSend.ret => (Len(lastSend.wrote) = 2 /\ lastSend.wrote[1].jt = "object" /\ lastSend.wrote[2].jt = "newline" /\ lastSend.connectedBefore)

\* a call that found the Bridge not connected, while the client's socket was open
C9_Witness == lastSend.called /\ ~lastSend.connectedBefore /\ ~lastSend.ret /\ lastSend.sock # 0 /\ IsOpen(lastSend.sock)

\* a call whose write failed
C9_WitnessFailed == lastSend.called /\ lastSend.connectedBefore /\ lastSend.failed /\ ~bridge.connected

\* s is the beginning of u
IsPrefix(s, u) == Len(s) <= Len(u) /\ SubSeq(u, 1, Len(s)) = s

\* C1: on an open connection the read loop gives the messages to the callbacks in the order they were
\* written, none twice and none lost: what was delivered is the beginning of what was written, and all of
\* it once nothing written is left to read
C1_FifoPerConnection ==
  \A c \in Conns : (IsOpen(c) /\ \A i \in DOMAIN written[c] : written[c][i].jt = "object") =>
    (IsPrefix(delivered[c], written[c]) /\ (toBridge[c] = <<>> => delivered[c] = written[c]))

\* C2: once a second client has connected, the socket of the client before is closed, and while the new
\* connection is open and stop() was not called the Bridge is connected to it and every write of
\* send_to_gui goes to it
C2_SecondClientReplaces ==
  (nConns >= 2 /\ IsOpen(nConns) /\ mstate = "mainloop") =>
    /\ \A c \in 1..(nConns - 1) : srvClosed[c]
    /\ bridge.client_socket = nConns
    /\ bridge.connected
    /\ (lastSend.ret /\ lastSend.newest = nConns) => lastSend.sock = nConns

\* the registry r with process p under agent a
Recorded(r, a, p) == [k \in DOMAIN r \cup {a} |-> IF k = a THEN p ELSE r[k]]

\* C5, as claimed: a launch of an agent that is in the registry with a process that has not exited spawns
\* nothing and leaves the registry; a launch of an agent that is not in the registry spawns exactly one
\* process and records it under the agent's id
C5_LaunchOnceOrNoop ==
  \A i \in DOMAIN launchLog :
    LET l == launchLog[i]
    IN /\ l.alive => (l.spawned = {} /\ l.after = l.before)
       /\ ~l.known => (\E p \in Procs : l.spawned = {p} /\ l.after = Recorded(l.before, l.agent, p))

\* C5, amended: the launch of an agent that is not in the registry spawns exactly one process and records
\* it when cdp_agent.py exists and Popen succeeds; otherwise it spawns none and leaves the registry
C5_LaunchOnceIfSpawnable ==
  \A i \in DOMAIN launchLog :
    LET l == launchLog[i]
    IN /\ l.alive => (l.spawned = {} /\ l.after = l.before)
       /\ (~l.known /\ l.script /\ l.spawnOk) => (\E p \in Procs : l.spawned = {p} /\ l.after = Recorded(l.before, l.agent, p))
       /\ (~l.known /\ ~(l.script /\ l.spawnOk)) => (l.spawned = {} /\ l.after = l.before)
       /\ \A p \in l.spawned : procs[p].state # "unborn"

C5_Witness ==
  /\ \E i \in DOMAIN launchLog : launchLog[i].alive
  /\ \E i \in DOMAIN launchLog : ~launchLog[i].known /\ launchLog[i].spawned # {}
  /\ Cardinality({p \in Procs : procs[p].state # "unborn"}) = 1

\* the processes that were ever recorded in the registry: Popen's result is recorded at once
EverRegistered == {p \in Procs : procs[p].state # "unborn"}

OnTheWire == UNION {Range(wire[k]) : k \in Socks}

\* C10: a message passed to send_message while connected is false is dropped: the call returns false, and
\* the message is on no socket, whatever connect() and send_message() were called afterwards
C10_DroppedWhileDisconnected ==
  /\ (lastCall.called /\ ~lastCall.connectedBefore) => ~lastCall.ret
  /\ \A m \in whileDisconnected : m \notin OnTheWire

\* a message was refused, and afterwards the client connected and sent another
C10_Witness ==
  /\ whileDisconnected # {}
  /\ lastCall.called /\ lastCall.connectedBefore /\ lastCall.ret /\ lastCall.msg \notin whileDisconnected
  /\ \E k \in Socks : wire[k] # <<>>

(***************************************************************************)
(* Claims about lines that are no JSON                                     *)
(***************************************************************************)
\* the lines of u that follow its first line that is no JSON object
AfterBadLine(u) == {u[i] : i \in {i \in DOMAIN u : \E j \in 1..(i - 1) : u[j].jt # "object"}}

\* the Bridge's part of C11 for one loop: a read loop of the Bridge that got a line that is no JSON has stopped
\* and has given the disconnect notification
BridgeLoopStops == \A t \in Conns : listeners[t].bad => (listeners[t].pc = "done" /\ listeners[t].notified)

\* the Bridge's part of C11 for the connection: no line written after the line that is no JSON is delivered
NoLaterLineDelivered == \A c \in Conns : Range(delivered[c]) \cap AfterBadLine(written[c]) = {}

\* C11: a read loop that got a line that is no JSON has stopped like after a disconnect, in the Bridge and in
\* the Bridge Client: the loop is over, its notification of the end was given, and no later line is delivered
C11_BadLineEndsLoop ==
  /\ BridgeLoopStops /\ NoLaterLineDelivered
  /\ \A t \in Socks : readers[t].bad => (readers[t].pc = "done" /\ readers[t].notified /\ readers[t].buffer = <<>>)

OfflineQueued(n) == Cardinality({i \in DOMAIN idle : idle[i].kind = "offline" /\ idle[i].cb = n})

RegisteredCalls ==
  LET ls == SplitNL(response, <<>>)
      ps == [k \in 1..Len(ls) |-> parse_tool_action(ls[k])]
      Hit(p) == p.found /\ p.name \in TOOL_REGISTRY
  IN SelectSeq(ps, Hit)

\* the tool function of a registered call is let run: always in REAL mode, in SAFE mode for the tools of the
\* safe list, never in SIMULATION mode
LetRun(p) == execMode = "REAL" \/ (execMode = "SAFE" /\ p.name \in SafeTools)

AsInvocation(p) == [tool |-> p.name, args |-> p.args]

\* one TOOL_RESULT per registered call was passed to the chat, in line order, with the output of its result
OneToolResultPerCall ==
  /\ Len(chatSent) = Len(RegisteredCalls) /\ Len(results) = Len(RegisteredCalls)
  /\ \A i \in 1..Len(RegisteredCalls) :
        /\ chatSent[i].type = "TOOL_RESULT" /\ chatSent[i].tool = RegisteredCalls[i].name
        /\ results[i].tool_name = RegisteredCalls[i].name /\ results[i].arguments = RegisteredCalls[i].args
        /\ chatSent[i].output = results[i].output

\* C14 as stated: once the dispatcher has returned, the tool functions invoked are those of the registered
\* calls of the response, each once with its extracted arguments, in line order, and one TOOL_RESULT per call
\* was passed to the chat in the same order
C14_InvokedOncePerCall ==
  dispatched =>
    /\ invoked = [i \in 1..Len(RegisteredCalls) |-> AsInvocation(RegisteredCalls[i])]
    /\ OneToolResultPerCall

\* C14 amended: the tool functions invoked are those of the registered calls the execution mode lets run, each
\* once with its extracted arguments, in line order; one TOOL_RESULT per registered call was passed to the chat
\* in line order, whatever the mode; the reply to a TOOL_RESULT made no invocation
C14_InvokedOncePerCallLetRun ==
  dispatched =>
    /\ LET run == SelectSeq(RegisteredCalls, LetRun)
       IN invoked = [i \in 1..Len(run) |-> AsInvocation(run[i])]
    /\ OneToolResultPerCall

\* in REAL mode a response of two registered calls was dispatched, and the reply to the TOOL_RESULT, itself a
\* call of a registered tool, was taken as a follow-up text
C14_Witness ==
  /\ dispatched /\ execMode = "REAL" /\ ~chatRaises /\ Len(invoked) = 2 /\ Len(chatSent) = 2
  /\ parse_tool_action(reply).found /\ parse_tool_action(reply).name \in TOOL_REGISTRY
  /\ \E i \in 1..Len(emitted) : emitted[i].type = "ai_followup" /\ emitted[i].output = reply

\* C15: a tool function that raised left a result with success false, an error message and the error text as
\* its output, and that output was passed to the chat as the TOOL_RESULT of the call; the dispatcher went on to
\* the end of the response
C15_ToolErrorBecomesResult ==
  dispatched =>
    /\ Len(results) = Len(RegisteredCalls) /\ Len(chatSent) = Len(RegisteredCalls)
    /\ \A i \in 1..Len(results) :
          results[i].raised =>
            /\ ~results[i].success /\ results[i].error_message # "None"
            /\ results[i].output = <<"Chyba", results[i].tool_name, results[i].arguments>>
            /\ chatSent[i].type = "TOOL_RESULT" /\ chatSent[i].tool = results[i].tool_name /\ chatSent[i].output = results[i].output

\* a call of LIST_DIR with no argument raised a TypeError, and a later call of the response was still dispatched
C15_Witness ==
  /\ dispatched /\ ~toolRaises /\ Len(results) = 2
  /\ results[1].raised /\ results[1].tool_name = <<"LIST_DIR">> /\ results[1].arguments = <<>>
  /\ ~results[2].raised

(***************************************************************************)
(* Claims about the start of the Bridge                                    *)
(***************************************************************************)
\* C16: start_server has not raised and has called the ready callback exactly once: with the success string
\* when the socket is bound and the accept thread started, with an error string otherwise; when bind or listen
\* failed, running is false then and ever after and no accept thread runs
C16_ReadyCallbackOnce ==
  startLog.called =>
    /\ ~startLog.raised /\ Len(startLog.ready) = 1
    /\ (startLog.ready[1] = "running") = (startLog.bound /\ startLog.thread)
    /\ startLog.ready[1] # "running" => startLog.ready[1] = "error"
    /\ ~startLog.bound => (~startLog.running /\ ~startLog.thread /\ ~bridge.running /\ acceptPc = "none")

\* the bind failed: the callback got the error string
C16_Witness == startLog.called /\ ~startLog.bound /\ startLog.ready = <<"error">> /\ mstate = "mainloop"

\* the bind succeeded: the callback got the success string and a client was accepted
C16_WitnessBound == startLog.called /\ startLog.ready = <<"running">> /\ nConns > 0

(***************************************************************************)
(* Claims about BridgeClient.connect                                       *)
(***************************************************************************)
\* C17: the last call of connect returned true exactly when the client then held a usable connection, a socket
\* connected and closed by neither side; a call that found the client not connected made one read thread when
\* it succeeded and left connected false with no thread when it failed; a call that found it connected
\* returned true with no new socket and no new thread
C17_ConnectTrueIffUsable ==
  lastConnect.called =>
    /\ lastConnect.ret = lastConnect.usable
    /\ (~lastConnect.connectedBefore /\ lastConnect.ret) => (lastConnect.newSocket /\ lastConnect.newThread /\ lastConnect.connectedAfter)
    /\ ~lastConnect.ret => (~lastConnect.connectedAfter /\ ~lastConnect.newThread)
    /\ lastConnect.connectedBefore => (lastConnect.ret /\ ~lastConnect.newSocket /\ ~lastConnect.newThread)

(***************************************************************************)
(* Claims about the framing of the read loop                               *)
(***************************************************************************)
\* the bytes recv has returned so far
Consumed == SubSeq(sent, 1, Len(sent) - Len(unread))

\* the index of the last newline among the first i bytes of bs, 0 when there is none
RECURSIVE LastNL(_, _)
LastNL(bs, i) == IF i = 0 THEN 0 ELSE IF bs[i] = NL THEN i ELSE LastNL(bs, i - 1)

\* C18: however recv has cut the stream, the message events so far are the lines, not blank and ended by a
\* newline, of the bytes read so far, each once and in order, and the buffer holds the bytes read after the
\* last newline
C18_FramingIndependentOfChunks ==
  LET k == LastNL(Consumed, Len(Consumed))
  IN /\ events = SplitLines(utf8_decode(SubSeq(Consumed, 1, k)).text, <<>>).events
     /\ utf8_encode(frameBuffer) = SubSeq(Consumed, k + 1, Len(Consumed))

\* the same for streams of characters of one byte: there the framing does not depend on the reads
FramingOfOneByteCharacters == (\A i \in DOMAIN sent : sent[i] \notin {LEAD, CONT}) => C18_FramingIndependentOfChunks

(***************************************************************************)
(* Claims about the threads of the Manager                                 *)
(***************************************************************************)
\* C19: _launch_agent, broadcast_status and stop, which read and write active_relays, have run on the thread of
\* the GUI only, never on the accept thread or on a read thread of the Bridge
C19_RegistryOnGuiThreadOnly == offGuiThread = {}

\* C20: no two loops of _listen_client are in recv on the same client socket
C20_OneReadLoopPerSocket ==
  \A t, u \in Conns : (t # u /\ listeners[t].pc = "recv" /\ listeners[u].pc = "recv") => listeners[t].sock # listeners[u].sock

(***************************************************************************)
(* Claims about a client that replaces another                             *)
(***************************************************************************)
\* C21: while the connection accepted last is open, its own read loop has not ended and stop() was not called,
\* the Bridge is connected and the calls of send_to_gui made since that connection was accepted returned
\* true: the end of the read loop of an older connection has not cleared connected
C21_ReplacedLoopEndIsSilent ==
  (nConns >= 1 /\ IsOpen(nConns) /\ listeners[nConns].pc # "done" /\ mstate = "mainloop" /\ bridge.running) =>
    /\ bridge.connected
    /\ (lastSend.called /\ lastSend.newest = nConns) => lastSend.ret

(***************************************************************************)
(* Claims about parentheses in the arguments of a call                     *)
(***************************************************************************)
\* an argument text of plain characters: no backslash, no quote
IsPlain(a) == \A i \in DOMAIN a : a[i] \notin {BSL, QUOTE}

\* C22: for a call written with plain argument texts of which one holds a closing parenthesis,
\* parse_tool_action returns the tool name and every argument whole and in order
C22_ParenInsideArgument ==
  (/\ parseResult.done /\ call.structured
   /\ \A k \in 1..Len(call.args) : IsPlain(call.args[k])
   /\ \E k \in 1..Len(call.args) : \E i \in DOMAIN call.args[k] : call.args[k][i] = ")")
    => parseResult.value = [found |-> TRUE, name |-> call.name, args |-> call.args]

(***************************************************************************)
(* Claims about the status broadcasts                                      *)
(***************************************************************************)
\* C23: the last status the Manager sent is a status_update message whose content has 'manager' as Online and
\* an entry for every agent ID the registry held when it was sent; a call made while the Bridge was not
\* connected wrote nothing
C23_StatusForEveryAgent ==
  lastSend.called =>
    /\ ~lastSend.connectedBefore => lastSend.wrote = <<>>
    /\ lastSend.ret =>
         LET msg == lastSend.wrote[1].jv
         IN /\ msg.metadata.jv.type = JStr("status_update")
            /\ "manager" \in DOMAIN msg.content.jv /\ msg.content.jv.manager.jv[1] = JStr("Online")
            /\ lastSend.known \subseteq DOMAIN msg.content.jv

\* the same for the agents that have not exited: those the status does hold
StatusForRunningAgents ==
  lastSend.ret => \A a \in DOMAIN lastSend.wrote[1].jv.content.jv : a = "manager" \/ a \in lastSend.known

\* C24: at most one timer of broadcast_status is pending in the Manager
C24_OneTimerPending == timers \in {"none", "one"}

(***************************************************************************)
(* Claims about the end of the loops                                       *)
(***************************************************************************)
\* the accept loop and every read loop of the Bridge have ended, and the Bridge is not connected
LoopsEnded == acceptPc # "accepting" /\ (\A t \in Conns : listeners[t].pc \in {"none", "done"}) /\ ~bridge.connected

\* C25: once RelayBridge.stop() has run, the accept loop and every read loop of the Bridge end and connected
\* becomes false
C25_LoopsEndAfterStop == (mstate = "stopped") ~> LoopsEnded

\* C26: a message event given for a line read on connection c is a line the client of connection c wrote: no
\* message is made of bytes of two connections, and the bytes left without a newline by a connection that ended
\* are never delivered
C26_NoMessageAcrossConnections ==
  \A c \in Conns : \A i \in DOMAIN delivered[c] : \E j \in DOMAIN written[c] : written[c][j] = delivered[c][i]

(***************************************************************************)
(* Claims about the callbacks of the Bridge Client                         *)
(***************************************************************************)
\* the lines of a buffer that end with a newline and are not empty, in order
RECURSIVE CompleteLines(_)
CompleteLines(buf) ==
  LET i == FirstNewline(buf, 1)
  IN IF i = 0 THEN <<>>
     ELSE (IF i = 1 THEN <<>> ELSE <<SubSeq(buf, 1, i - 1)>>) \o CompleteLines(SubSeq(buf, i + 1, Len(buf)))

\* the messages of the lines that are JSON objects
RECURSIVE MessagesOf(_)
MessagesOf(lns) ==
  IF lns = <<>> THEN <<>>
  ELSE (IF IsJsonObject(Head(lns)) THEN <<PyDict(GuiFromJson(Head(lns), now))>> ELSE <<>>) \o MessagesOf(Tail(lns))

\* the messages of the calls of a part of the idle queue that are for callback n
RECURSIVE CallsFor(_, _)
CallsFor(q, n) ==
  IF q = <<>> THEN <<>>
  ELSE (IF Head(q).cb = n THEN <<Head(q).msg>> ELSE <<>>) \o CallsFor(Tail(q), n)

LaunchedAgents == {launchLog[i].agent : i \in DOMAIN launchLog}
SpawnedFor(a) == UNION {launchLog[i].spawned : i \in {j \in DOMAIN launchLog : launchLog[j].agent = a}}
Latest(ps) == CHOOSE p \in ps : \A q \in ps : q <= p

\* C28: of the processes spawned for an agent at most one has not exited, and the registry maps the agent to the
\* latest of them
C28_OneLiveProcessPerAgent ==
  \A a \in LaunchedAgents :
    /\ Cardinality({p \in SpawnedFor(a) : procs[p].state = "running"}) <= 1
    /\ SpawnedFor(a) # {} => (a \in DOMAIN active_relays /\ active_relays[a] = Latest(SpawnedFor(a)))

(***************************************************************************)
(* Claims about a callback that raises                                     *)
(***************************************************************************)
\* a launch_agent message whose content is a text: handle_bridge_event raises on content.get
ContentIsText(m) == m.jt = "object" /\ m.jv.metadata.jv.type.jv = "launch_agent" /\ m.jv.content.jt = "string"

\* C29: after the callback raised for a launch_agent message whose content is a text, read on the newest
\* connection while it is open and the Manager runs, the Bridge is still connected and no read loop of that
\* connection has ended
C29_CallbackExceptionKeepsLoop ==
  \A c \in Conns :
    (c = nConns /\ IsOpen(c) /\ bridge.running /\ mstate = "mainloop" /\ \E i \in DOMAIN delivered[c] : ContentIsText(delivered[c][i])) =>
      /\ bridge.connected
      /\ \A t \in Conns : listeners[t].sock = c => listeners[t].pc # "done"

(***************************************************************************)
(* Claims about the execution modes                                        *)
(***************************************************************************)
\* the tools the claim lists as safe
ClaimedSafe == {<<"READ_FILE">>, <<"LIST_DIR">>, <<"LOG_ACTIVITY">>, <<"ANALYZE_PROJECT">>}

\* C30: in SIMULATION mode no tool function was invoked; in SAFE mode only tool functions of READ_FILE, LIST_DIR,
\* LOG_ACTIVITY and ANALYZE_PROJECT were invoked, and a call of another registered tool has a result with
\* success false, an error message, and no invocation of its function
C30_ModesGateTheTool ==
  dispatched =>
    /\ execMode = "SIMULATION" => (invoked = <<>> /\ \A i \in DOMAIN results : ~results[i].called)
    /\ execMode = "SAFE" =>
         /\ \A i \in DOMAIN invoked : invoked[i].tool \in ClaimedSafe
         /\ \A i \in DOMAIN results :
              IF results[i].tool_name \in ClaimedSafe THEN results[i].called
              ELSE ~results[i].called /\ ~results[i].success /\ results[i].error_message # "None"
         /\ Len(invoked) = Cardinality({i \in DOMAIN results : results[i].called})

\* in SAFE mode a response called WRITE_CODE, which was blocked, and then ANALYZE_PROJECT, which ran
C30_Witness ==
  /\ dispatched /\ execMode = "SAFE" /\ Len(results) = 2
  /\ results[1].tool_name = <<"WRITE_CODE">> /\ ~results[1].called /\ ~results[1].success
  /\ results[2].tool_name = <<"ANALYZE_PROJECT">> /\ results[2].called /\ results[2].success
  /\ Len(invoked) = 1 /\ invoked[1].tool = <<"ANALYZE_PROJECT">>

\* in SIMULATION mode a response called two registered tools and none ran
C30_WitnessSimulation ==
  dispatched /\ execMode = "SIMULATION" /\ Len(results) = 2 /\ invoked = <<>> /\ \A i \in DOMAIN results : results[i].success

====
